---- MODULE Spec2Model ----
(***************************************************************************)
(* Verification model of the CapRate AI investment calculator.             *)
(*                                                                         *)
(* calculateMetrics (utils/calculations) is a pure function over           *)
(* JavaScript Numbers.  A Number is modelled as an exact rational n/d in   *)
(* lowest terms with d > 0; the three non-finite Numbers that division by  *)
(* zero produces are the records with d = 0:                               *)
(*     Infinity = 1/0     -Infinity = -1/0     NaN = 0/0                    *)
(* The operators below follow the IEEE-754 rules for these values.         *)
(* Rounding of finite results is not modelled: finite arithmetic is exact. *)
(***************************************************************************)
EXTENDS Integers, Sequences, FiniteSets, TLC

VARIABLES property, params, metrics, pc

\* the bounds of Math.pow(1 + monthlyRate, k) for the k reached so far, where
\* the power is not written down as a fraction
VARIABLES growth

\* FinancialInputs: the edit handler that ran last, with its arguments
VARIABLES lastEdit

\* geminiService: what the provider call produced and what analyzeProperty
\* made of it
VARIABLES response, analysis

\* App: the component's state (useState), ...
VARIABLES apiKey, isKeyEntered, address, loading, error, propertyData,
          financialParams, history, sharedView

\* ... and its environment: the two localStorage items, the share parameter
\* of the page URL, the clipboard, the search that is awaiting the provider,
\* the clock (Date.now), whether the mount effect has run, and the handler
\* that ran last
VARIABLES storedKey, storedHistory, shareParam, clipboard, inflight, now,
          mounted, lastEvent

calcVars == <<property, params, metrics, pc, growth>>

inputVars == <<lastEdit>>

providerVars == <<response, analysis>>

stateVars ==
  <<apiKey, isKeyEntered, address, loading, error, propertyData,
    financialParams, history, sharedView>>

envVars ==
  <<storedKey, storedHistory, shareParam, clipboard, inflight, now, mounted,
    lastEvent>>

appVars == <<stateVars, envVars>>

vars == <<calcVars, inputVars, providerVars, appVars>>

(***************************************************************************)
(* Numbers                                                                 *)
(***************************************************************************)
Abs(i) == IF i < 0 THEN -i ELSE i

Sgn(i) == IF i > 0 THEN 1 ELSE IF i < 0 THEN -1 ELSE 0

RECURSIVE GCD(_, _)
GCD(a, b) == IF b = 0 THEN a ELSE GCD(b, a % b)

\* the rational a/b (b # 0) in lowest terms with a positive denominator
Norm(a, b) ==
  LET g == GCD(Abs(a), Abs(b))
      s == IF b < 0 THEN -1 ELSE 1
  IN  [n |-> s * (a \div g), d |-> s * (b \div g)]

Num(i) == [n |-> i, d |-> 1]

Infinity == [n |-> 1, d |-> 0]

NegInfinity == [n |-> -1, d |-> 0]

NaN == [n |-> 0, d |-> 0]

Zero == Num(0)

IsFinite(x) == x.d # 0

IsNaN(x) == x.d = 0 /\ x.n = 0

\* x > 0 (false for NaN, true for Infinity)
GtZero(x) == x.n > 0

\* x === 0
EqZero(x) == x.d # 0 /\ x.n = 0

Neg(x) == [n |-> -x.n, d |-> x.d]

Add(x, y) ==
  IF IsNaN(x) \/ IsNaN(y) THEN NaN
  ELSE IF ~IsFinite(x) /\ ~IsFinite(y) THEN (IF x.n = y.n THEN x ELSE NaN)
  ELSE IF ~IsFinite(x) THEN x
  ELSE IF ~IsFinite(y) THEN y
  ELSE LET g == GCD(x.d, y.d)
       IN  Norm(x.n * (y.d \div g) + y.n * (x.d \div g), (x.d \div g) * y.d)

Sub(x, y) == Add(x, Neg(y))

Mul(x, y) ==
  IF IsNaN(x) \/ IsNaN(y) THEN NaN
  ELSE IF ~IsFinite(x) \/ ~IsFinite(y) THEN [n |-> Sgn(x.n) * Sgn(y.n), d |-> 0]
  ELSE LET g1 == GCD(Abs(x.n), y.d)
           g2 == GCD(Abs(y.n), x.d)
       IN  Norm((x.n \div g1) * (y.n \div g2), (x.d \div g2) * (y.d \div g1))

Div(x, y) ==
  IF IsNaN(x) \/ IsNaN(y) THEN NaN
  ELSE IF ~IsFinite(x) /\ ~IsFinite(y) THEN NaN
  ELSE IF ~IsFinite(x) THEN [n |-> x.n * (IF y.n < 0 THEN -1 ELSE 1), d |-> 0]
  ELSE IF ~IsFinite(y) THEN Zero
  ELSE IF y.n = 0 THEN [n |-> Sgn(x.n), d |-> 0]
  ELSE Mul(x, Norm(y.d, y.n))

\* Math.pow(b, e) for an exponent e that is a non-negative integer
RECURSIVE PowInt(_, _)
PowInt(b, k) == IF k = 0 THEN Num(1) ELSE Mul(b, PowInt(b, k - 1))

Pow(b, e) == PowInt(b, e.n)

RECURSIVE SumSeq(_)
SumSeq(s) == IF s = <<>> THEN Zero ELSE Add(SumSeq(SubSeq(s, 1, Len(s) - 1)), s[Len(s)])

(***************************************************************************)
(* calculateMetrics, one operator per intermediate value of the function   *)
(* p is a PropertyData record, q a FinancialParams record.  A field that   *)
(* is absent from a JavaScript object is absent from the record's DOMAIN.  *)
(***************************************************************************)
Hundred == Num(100)

Twelve == Num(12)

\* 1. Income
\* faulty variant: the per-unit rents are ignored
monthlyGrossIncomeAverageOnly(p) == Mul(p.estimatedRentPerUnit, p.numUnits)

monthlyGrossIncome(p) ==
  IF "unitRents" \in DOMAIN p /\ Len(p.unitRents) > 0
  THEN SumSeq(p.unitRents)
  ELSE Mul(p.estimatedRentPerUnit, p.numUnits)

potentialGrossIncome(p) == Mul(monthlyGrossIncome(p), Twelve)

\* faulty variant: vacancyRate taken as a fraction instead of percentage points
vacancyLossFractional(p) == Mul(potentialGrossIncome(p), p.vacancyRate)

vacancyLoss(p) == Mul(potentialGrossIncome(p), Div(p.vacancyRate, Hundred))

effectiveGrossIncome(p) == Sub(potentialGrossIncome(p), vacancyLoss(p))

\* 2. Operating Expenses
\* faulty variant: maintenance charged on the gross (pre-vacancy) income
maintenanceAnnualOnGross(p) == Mul(potentialGrossIncome(p), Div(p.maintenanceRate, Hundred))

maintenanceAnnual(p) == Mul(effectiveGrossIncome(p), Div(p.maintenanceRate, Hundred))

hoaAnnual(p) == Mul(p.hoaMonthly, Twelve)

totalOperatingExpenses(p) ==
  Add(Add(Add(p.propertyTaxAnnual, p.insuranceAnnual), hoaAnnual(p)), maintenanceAnnual(p))

\* 3. NOI
noi(p) == Sub(effectiveGrossIncome(p), totalOperatingExpenses(p))

\* 4. Cap Rate
\* faulty variant: no guard against listPrice = 0
capRateUnguarded(p) == Mul(Div(noi(p), p.listPrice), Hundred)

capRate(p) ==
  IF GtZero(p.listPrice) THEN Mul(Div(noi(p), p.listPrice), Hundred) ELSE Zero

\* 5. Debt Service (Mortgage)
downPaymentAmount(p, q) == Mul(p.listPrice, Div(q.downPaymentPercent, Hundred))

loanAmount(p, q) == Sub(p.listPrice, downPaymentAmount(p, q))

monthlyRate(q) == Div(Div(q.interestRate, Hundred), Twelve)

numberOfPayments(q) == Mul(q.loanTermYears, Twelve)

\* faulty variant: the denominator lacks the "- 1"
amortizedPaymentNoMinusOne(p, q) ==
  Div(Mul(Mul(loanAmount(p, q), monthlyRate(q)),
          Pow(Add(Num(1), monthlyRate(q)), numberOfPayments(q))),
      Pow(Add(Num(1), monthlyRate(q)), numberOfPayments(q)))

\* Standard amortization formula
amortizedPayment(p, q) ==
  Div(Mul(Mul(loanAmount(p, q), monthlyRate(q)),
          Pow(Add(Num(1), monthlyRate(q)), numberOfPayments(q))),
      Sub(Pow(Add(Num(1), monthlyRate(q)), numberOfPayments(q)), Num(1)))

\* faulty variant: the loan is spread over the years, not the months
straightLinePaymentPerYear(p, q) == Div(loanAmount(p, q), q.loanTermYears)

straightLinePayment(p, q) == Div(loanAmount(p, q), Mul(q.loanTermYears, Twelve))

\* faulty variant: the branches do not test loanAmount > 0
monthlyMortgagePaymentAnyLoan(p, q) ==
  IF GtZero(q.interestRate) THEN amortizedPayment(p, q)
  ELSE IF EqZero(q.interestRate) THEN straightLinePayment(p, q)
  ELSE Zero

\* faulty variant: the second branch is a plain else, so that a negative rate
\* is paid off like an interest-free loan
monthlyMortgagePaymentElseStraightLine(p, q) ==
  IF GtZero(loanAmount(p, q)) /\ GtZero(q.interestRate)
  THEN amortizedPayment(p, q)
  ELSE IF GtZero(loanAmount(p, q))
  THEN straightLinePayment(p, q)
  ELSE Zero

monthlyMortgagePayment(p, q) ==
  IF GtZero(loanAmount(p, q)) /\ GtZero(q.interestRate)
  THEN amortizedPayment(p, q)
  ELSE IF GtZero(loanAmount(p, q)) /\ EqZero(q.interestRate)
  THEN straightLinePayment(p, q)
  ELSE Zero

\* faulty variant: the monthly payment is not annualised
annualDebtServiceOneMonth(p, q) == monthlyMortgagePayment(p, q)

annualDebtService(p, q) == Mul(monthlyMortgagePayment(p, q), Twelve)

\* 6. Cash Flow & Returns
annualCashFlow(p, q) == Sub(noi(p), annualDebtService(p, q))

closingCosts(p, q) == Mul(p.listPrice, Div(q.closingCostsPercent, Hundred))

\* faulty variant: the closing costs are left out
totalInitialInvestmentDownOnly(p, q) == downPaymentAmount(p, q)

totalInitialInvestment(p, q) == Add(downPaymentAmount(p, q), closingCosts(p, q))

cashOnCashReturn(p, q) ==
  IF GtZero(totalInitialInvestment(p, q))
  THEN Mul(Div(annualCashFlow(p, q), totalInitialInvestment(p, q)), Hundred)
  ELSE Zero

calculateMetrics(p, q) ==
  [grossAnnualIncome      |-> potentialGrossIncome(p),
   effectiveGrossIncome   |-> effectiveGrossIncome(p),
   totalOperatingExpenses |-> totalOperatingExpenses(p),
   noi                    |-> noi(p),
   capRate                |-> capRate(p),
   monthlyMortgagePayment |-> monthlyMortgagePayment(p, q),
   annualDebtService      |-> annualDebtService(p, q),
   annualCashFlow         |-> annualCashFlow(p, q),
   cashOnCashReturn       |-> cashOnCashReturn(p, q),
   totalInitialInvestment |-> totalInitialInvestment(p, q)]

(***************************************************************************)
(* Inputs of the calculation                                               *)
(***************************************************************************)
MaxUnits == 2

NumSet(S) == {Num(i) : i \in S}

RECURSIVE SeqsUpTo(_, _)
SeqsUpTo(S, k) ==
  IF k = 0 THEN {<<>>}
  ELSE LET shorter == SeqsUpTo(S, k - 1)
       IN  shorter \cup {Append(s, x) : s \in {t \in shorter : Len(t) = k - 1}, x \in S}

ListPrices == NumSet({0, 200000})

UnitCounts == NumSet(1..MaxUnits)

RentValues == NumSet({1000, 1200})

EstimatedRents == NumSet({0, 1500})

TaxValues == NumSet({0, 2400})

InsuranceValues == NumSet({1200})

HoaValues == NumSet({0, 100})

OperatingRates == NumSet({0, 5})

DownPaymentPercents == NumSet({0, 20, 100, 120})

InterestRates == NumSet({-1200, 0, 1200})

LoanTerms == NumSet({0, 1})

ClosingPercents == NumSet({0, 2})

\* PropertyData records whose unitRents field is absent
PropertiesWithoutRents ==
  [listPrice : ListPrices, numUnits : UnitCounts,
   estimatedRentPerUnit : EstimatedRents,
   propertyTaxAnnual : TaxValues, insuranceAnnual : InsuranceValues,
   hoaMonthly : HoaValues, maintenanceRate : OperatingRates,
   vacancyRate : OperatingRates]

Properties ==
  PropertiesWithoutRents \cup
  {("unitRents" :> r) @@ b : b \in PropertiesWithoutRents, r \in SeqsUpTo(RentValues, MaxUnits)}

Params ==
  [downPaymentPercent : DownPaymentPercents, interestRate : InterestRates,
   loanTermYears : LoanTerms, closingCostsPercent : ClosingPercents]

NoMetrics == [f \in {} |-> Zero]

PowerScale == 10 ^ 8

\* Math.pow(x, 0) = 1, in units of 1 / PowerScale
NoGrowth == [k |-> 0, lo |-> PowerScale, hi |-> PowerScale]

(***************************************************************************)
(* The calculation as a state machine: the caller holds a property and a   *)
(* params record and invokes calculateMetrics on them.                     *)
(***************************************************************************)
NoEdit == [op |-> "none"]

\* JavaScript null, wherever the other values are records
JNull == [null |-> TRUE]

\* an array value, where a value may also be something that is not an array
JArray(items) == [list |-> items]

IsArray(v) == "list" \in DOMAIN v

\* DEFAULT_PARAMS of App
DEFAULT_PARAMS ==
  [downPaymentPercent |-> Num(20), interestRate |-> Norm(13, 2),
   loanTermYears |-> Num(30), closingCostsPercent |-> Num(2)]

\* error === null
NoError == "null"

\* localStorage.getItem(key) === null
NoItem == [absent |-> TRUE]

NoEvent == [op |-> "none"]

\* the components that take no part in a specification stay as constructed
CalcIdle ==
  /\ property = JNull
  /\ params = DEFAULT_PARAMS
  /\ metrics = NoMetrics
  /\ pc = "ready"
  /\ growth = NoGrowth

InputsIdle == lastEdit = NoEdit

ProviderIdle ==
  /\ response = JNull
  /\ analysis = JNull

\* the useState initial values of App
StateConstructed ==
  /\ apiKey = <<>>
  /\ isKeyEntered = FALSE
  /\ address = <<>>
  /\ loading = FALSE
  /\ error = NoError
  /\ propertyData = JNull
  /\ financialParams = DEFAULT_PARAMS
  /\ history = JArray(<<>>)
  /\ sharedView = FALSE

AppIdle ==
  /\ StateConstructed
  /\ storedKey = NoItem
  /\ storedHistory = NoItem
  /\ shareParam = NoItem
  /\ clipboard = NoItem
  /\ inflight = <<>>
  /\ now = 0
  /\ mounted = FALSE
  /\ lastEvent = NoEvent

Init ==
  /\ property \in Properties
  /\ params \in Params
  /\ metrics = NoMetrics
  /\ pc = "ready"
  /\ growth = NoGrowth
  /\ InputsIdle
  /\ ProviderIdle
  /\ AppIdle

Calculate ==
  /\ pc = "ready"
  /\ metrics' = calculateMetrics(property, params)
  /\ pc' = "done"
  /\ UNCHANGED <<property, params, growth, inputVars, providerVars, appVars>>

Next == Calculate

Spec == Init /\ [][Next]_vars

(***************************************************************************)
(* Properties of calculateMetrics.  Each is stated on the inputs held in   *)
(* property and params and on the record held in metrics after the call,   *)
(* with the arithmetic written out rather than taken from the operators    *)
(* above.                                                                  *)
(***************************************************************************)
Done == pc = "done"

HasRents == "unitRents" \in DOMAIN property /\ property.unitRents # <<>>

RECURSIVE SumOfEntries(_)
SumOfEntries(s) == IF s = <<>> THEN Zero ELSE Add(Head(s), SumOfEntries(Tail(s)))

Percent(x) == Div(x, Hundred)

NonNegative(x) == IsFinite(x) /\ x.n >= 0

ClaimLoanAmount ==
  Sub(property.listPrice, Div(Mul(property.listPrice, params.downPaymentPercent), Hundred))

ClaimRate == Div(Div(params.interestRate, Hundred), Twelve)

ClaimGrowth == PowInt(Add(Num(1), ClaimRate), 12 * params.loanTermYears.n)

\* C1: grossAnnualIncome is 12 x the sum of unitRents when unitRents is
\* non-empty, and 12 x estimatedRentPerUnit x numUnits only when unitRents is
\* empty or absent, even when the two disagree.
C1_GrossIncomeFromUnitRents ==
  Done =>
    metrics.grossAnnualIncome =
      IF HasRents
      THEN Mul(Twelve, SumOfEntries(property.unitRents))
      ELSE Mul(Twelve, Mul(property.estimatedRentPerUnit, property.numUnits))

\* unitRents = [1000, 1200] overrides 2 units at an estimated 1500
C1_Witness ==
  /\ Done
  /\ HasRents
  /\ property.unitRents = <<Num(1000), Num(1200)>>
  /\ property.estimatedRentPerUnit = Num(1500)
  /\ property.numUnits = Num(2)
  /\ metrics.grossAnnualIncome = Num(26400)

C4_ResultConsistent ==
  Done =>
    /\ metrics.noi = Sub(metrics.effectiveGrossIncome, metrics.totalOperatingExpenses)
    /\ metrics.annualDebtService = Mul(Twelve, metrics.monthlyMortgagePayment)
    /\ metrics.annualCashFlow = Sub(metrics.noi, metrics.annualDebtService)

\* a record with a finite non-zero payment, a non-zero noi and a cash flow
\* that differs from the noi
C4_Witness ==
  /\ Done
  /\ IsFinite(metrics.monthlyMortgagePayment)
  /\ GtZero(metrics.monthlyMortgagePayment)
  /\ GtZero(metrics.noi)
  /\ metrics.annualCashFlow # metrics.noi

\* C5: capRate = noi / listPrice x 100 when listPrice > 0, and 0 otherwise;
\* listPrice = 0 gives capRate = 0 whatever the income and expenses are.
C5_CapRate ==
  Done =>
    metrics.capRate =
      IF GtZero(property.listPrice)
      THEN Mul(Div(metrics.noi, property.listPrice), Hundred)
      ELSE Zero

\* listPrice = 0 with a non-zero noi
C5_Witness ==
  /\ Done
  /\ property.listPrice = Zero
  /\ GtZero(metrics.noi)
  /\ metrics.capRate = Zero

\* C6 (as stated): whenever loanAmount > 0 and interestRate > 0, the payment M
\* satisfies M x ((1+r)^n - 1) = L x r x (1+r)^n.
C6_AmortizationEquationAnyTerm ==
  (Done /\ GtZero(ClaimLoanAmount) /\ GtZero(params.interestRate)) =>
    Mul(metrics.monthlyMortgagePayment, Sub(ClaimGrowth, Num(1))) =
      Mul(Mul(ClaimLoanAmount, ClaimRate), ClaimGrowth)

\* C6 (amended): when loanAmount > 0, interestRate > 0 and loanTermYears >= 1,
\* the payment M satisfies M x ((1+r)^n - 1) = L x r x (1+r)^n.
C6_AmortizationEquation ==
  (Done /\ GtZero(ClaimLoanAmount) /\ GtZero(params.interestRate)
        /\ GtZero(params.loanTermYears)) =>
    Mul(metrics.monthlyMortgagePayment, Sub(ClaimGrowth, Num(1))) =
      Mul(Mul(ClaimLoanAmount, ClaimRate), ClaimGrowth)

\* a loan of 160000 over 12 payments at a monthly rate of 1
C6_Witness ==
  /\ Done
  /\ ClaimLoanAmount = Num(160000)
  /\ params.interestRate = Num(1200)
  /\ params.loanTermYears = Num(1)
  /\ metrics.monthlyMortgagePayment = [n |-> 131072000, d |-> 819]

\* C7: when interestRate = 0 and loanAmount > 0, monthlyMortgagePayment =
\* loanAmount / (loanTermYears x 12) exactly.
C7_ZeroInterestPayment ==
  (Done /\ EqZero(params.interestRate) /\ GtZero(ClaimLoanAmount)) =>
    metrics.monthlyMortgagePayment =
      Div(ClaimLoanAmount, Mul(params.loanTermYears, Twelve))

\* 160000 interest-free over one year is 40000/3 a month
C7_Witness ==
  /\ Done
  /\ params.interestRate = Zero
  /\ ClaimLoanAmount = Num(160000)
  /\ params.loanTermYears = Num(1)
  /\ metrics.monthlyMortgagePayment = [n |-> 40000, d |-> 3]

\* C8: when loanAmount <= 0, monthlyMortgagePayment = 0, annualDebtService = 0
\* and annualCashFlow = noi, for every interestRate and loanTermYears.
C8_NoLoanNoDebtService ==
  (Done /\ ~GtZero(ClaimLoanAmount)) =>
    /\ metrics.monthlyMortgagePayment = Zero
    /\ metrics.annualDebtService = Zero
    /\ metrics.annualCashFlow = metrics.noi

\* Scenario C: a priced property bought fully in cash, at a positive rate
C8_Witness ==
  /\ Done
  /\ property.listPrice = Num(200000)
  /\ params.downPaymentPercent = Hundred
  /\ params.interestRate = Num(1200)
  /\ params.loanTermYears = Num(1)
  /\ metrics.monthlyMortgagePayment = Zero
  /\ metrics.annualCashFlow = metrics.noi
  /\ GtZero(metrics.noi)

\* C9: totalInitialInvestment = listPrice x downPaymentPercent/100 + listPrice
\* x closingCostsPercent/100; cashOnCashReturn = annualCashFlow /
\* totalInitialInvestment x 100 when totalInitialInvestment > 0 and 0
\* otherwise; downPaymentPercent = 100 with closingCostsPercent = 0 gives
\* totalInitialInvestment = listPrice; listPrice = 0 gives cashOnCashReturn = 0.
C9_InvestmentAndCashOnCash ==
  Done =>
    /\ metrics.totalInitialInvestment =
         Add(Div(Mul(property.listPrice, params.downPaymentPercent), Hundred),
             Div(Mul(property.listPrice, params.closingCostsPercent), Hundred))
    /\ metrics.cashOnCashReturn =
         IF GtZero(metrics.totalInitialInvestment)
         THEN Mul(Div(metrics.annualCashFlow, metrics.totalInitialInvestment), Hundred)
         ELSE Zero
    /\ (params.downPaymentPercent = Hundred /\ params.closingCostsPercent = Zero)
         => metrics.totalInitialInvestment = property.listPrice
    /\ property.listPrice = Zero => metrics.cashOnCashReturn = Zero

\* 20% down plus 2% closing costs on 200000, with a finite non-zero return
C9_Witness ==
  /\ Done
  /\ property.listPrice = Num(200000)
  /\ params.downPaymentPercent = Num(20)
  /\ params.closingCostsPercent = Num(2)
  /\ metrics.totalInitialInvestment = Num(44000)
  /\ IsFinite(metrics.cashOnCashReturn)
  /\ metrics.cashOnCashReturn # Zero

ValidInput ==
  /\ NonNegative(property.listPrice)
  /\ NonNegative(property.maintenanceRate)
  /\ NonNegative(property.vacancyRate)
  /\ NonNegative(params.downPaymentPercent)
  /\ NonNegative(params.interestRate)
  /\ NonNegative(params.closingCostsPercent)
  /\ NonNegative(params.loanTermYears) /\ params.loanTermYears.d = 1

\* C10: for every input whose fields are finite numbers (listPrice >= 0,
\* percentages >= 0, loanTermYears an integer >= 0, unitRents possibly empty)
\* every field of the result is a finite number.
C10_AllFieldsFinite ==
  (Done /\ ValidInput) => \A f \in DOMAIN metrics : IsFinite(metrics[f])

(***************************************************************************)
(* FinancialInputs: the edit handlers of the dashboard.  Each returns the  *)
(* record it hands to onPropertyChange.  Sequences are 1-based: the unit   *)
(* with index idx in the code is entry idx + 1 here.                       *)
(***************************************************************************)
\* Math.floor of a finite Number, as an integer
Floor(x) == x.n \div x.d

\* property.unitRents || []
RentsOrEmpty(p) == IF "unitRents" \in DOMAIN p THEN p.unitRents ELSE <<>>

\* { ...p, [key]: value, ... }
Spread(p, overrides) == overrides @@ p

handlePropChange(p, key, value) == Spread(p, key :> value)

\* faulty variant: the count is stored without resizing the rent list
handleNumUnitsChangeKeepingRents(p, val) ==
  LET newCount == IF Floor(val) > 1 THEN Floor(val) ELSE 1
  IN  Spread(p, "numUnits" :> Num(newCount))

\* faulty variant: new slots always take the estimated average
handleNumUnitsChangeFillAverage(p, val) ==
  LET newCount == IF Floor(val) > 1 THEN Floor(val) ELSE 1
      oldRents == RentsOrEmpty(p)
      newRents ==
        IF newCount > Len(oldRents)
        THEN oldRents \o [i \in 1..(newCount - Len(oldRents)) |-> p.estimatedRentPerUnit]
        ELSE IF newCount < Len(oldRents) THEN SubSeq(oldRents, 1, newCount)
        ELSE oldRents
  IN  Spread(p, ("numUnits" :> Num(newCount)) @@ ("unitRents" :> newRents))

handleNumUnitsChange(p, val) ==
  LET newCount == IF Floor(val) > 1 THEN Floor(val) ELSE 1
      oldRents == RentsOrEmpty(p)
      fillValue == IF Len(oldRents) > 0 THEN oldRents[Len(oldRents)]
                   ELSE p.estimatedRentPerUnit
      newRents ==
        IF newCount > Len(oldRents)
        THEN oldRents \o [i \in 1..(newCount - Len(oldRents)) |-> fillValue]
        ELSE IF newCount < Len(oldRents) THEN SubSeq(oldRents, 1, newCount)
        ELSE oldRents
  IN  Spread(p, ("numUnits" :> Num(newCount)) @@ ("unitRents" :> newRents))

handleUnitRentChange(p, index, val) ==
  Spread(p, "unitRents" :> [RentsOrEmpty(p) EXCEPT ![index] = val])

\* the values the unit-count input hands over, among them a fraction
CountEdits == NumSet(-1..(MaxUnits + 1)) \cup {Norm(5, 2)}

RentEdits == NumSet({900})

PropEdits == {<<"listPrice", Num(0)>>, <<"vacancyRate", Num(0)>>}

InputPropertiesWithoutRents ==
  [listPrice : NumSet({200000}), numUnits : UnitCounts,
   estimatedRentPerUnit : EstimatedRents,
   propertyTaxAnnual : NumSet({2400}), insuranceAnnual : InsuranceValues,
   hoaMonthly : NumSet({0}), maintenanceRate : NumSet({5}),
   vacancyRate : NumSet({5})]

InputProperties ==
  InputPropertiesWithoutRents \cup
  {("unitRents" :> r) @@ b : b \in InputPropertiesWithoutRents,
                             r \in SeqsUpTo(RentValues, MaxUnits)}

InputsInit ==
  /\ property \in InputProperties
  /\ params = DEFAULT_PARAMS
  /\ metrics = NoMetrics
  /\ pc = "ready"
  /\ growth = NoGrowth
  /\ lastEdit = NoEdit
  /\ ProviderIdle
  /\ AppIdle

NumUnitsChange ==
  \E val \in CountEdits :
    /\ property' = handleNumUnitsChange(property, val)
    /\ lastEdit' = [op |-> "handleNumUnitsChange", val |-> val, before |-> property]
    /\ UNCHANGED <<params, metrics, pc, growth, providerVars, appVars>>

UnitRentChange ==
  \E index \in 1..Len(RentsOrEmpty(property)), val \in RentEdits :
    /\ property' = handleUnitRentChange(property, index, val)
    /\ lastEdit' = [op |-> "handleUnitRentChange", index |-> index, val |-> val,
                    before |-> property]
    /\ UNCHANGED <<params, metrics, pc, growth, providerVars, appVars>>

PropChange ==
  \E edit \in PropEdits :
    /\ property' = handlePropChange(property, edit[1], edit[2])
    /\ lastEdit' = [op |-> "handlePropChange", key |-> edit[1], val |-> edit[2],
                    before |-> property]
    /\ UNCHANGED <<params, metrics, pc, growth, providerVars, appVars>>

InputsNext == NumUnitsChange \/ UnitRentChange \/ PropChange

InputsSpec == InputsInit /\ [][InputsNext]_vars

\* C17: handleNumUnitsChange(val) with newCount = max(1, floor(val)) produces
\* a rent list of length newCount whose entries 0..min(old,new)-1 are
\* unchanged; when growing, every added entry equals the last entry of the old
\* list, or estimatedRentPerUnit when the old list was empty; when shrinking,
\* the list is truncated.
C17_NumUnitsChangeResizesRents ==
  lastEdit.op = "handleNumUnitsChange" =>
    LET old == IF "unitRents" \in DOMAIN lastEdit.before
               THEN lastEdit.before.unitRents ELSE <<>>
        oldLen == Len(old)
        fl == lastEdit.val.n \div lastEdit.val.d
        newCount == IF fl >= 1 THEN fl ELSE 1
        smaller == IF oldLen < newCount THEN oldLen ELSE newCount
    IN  /\ "unitRents" \in DOMAIN property
        /\ property.numUnits = Num(newCount)
        /\ Len(property.unitRents) = newCount
        /\ \A i \in 1..smaller : property.unitRents[i] = old[i]
        /\ \A i \in (oldLen + 1)..newCount :
             property.unitRents[i] =
               IF oldLen > 0 THEN old[oldLen]
               ELSE lastEdit.before.estimatedRentPerUnit

\* growing a list [1000, 1200] by one slot repeats 1200, not the average 1500
C17_Witness ==
  /\ lastEdit.op = "handleNumUnitsChange"
  /\ lastEdit.val = Num(3)
  /\ lastEdit.before.unitRents = <<Num(1000), Num(1200)>>
  /\ lastEdit.before.estimatedRentPerUnit = Num(1500)
  /\ property.unitRents = <<Num(1000), Num(1200), Num(1200)>>

(***************************************************************************)
(* geminiService: analyzeProperty.  The provider call is the environment:  *)
(* its outcome is one of                                                   *)
(*   noApiKey      getClient throws, process.env.API_KEY is not set        *)
(*   networkError  generateContent rejects                                 *)
(*   noText        the response has no text                                *)
(*   unparseable   extractJSON throws                                      *)
(*   parsed        extractJSON returns the payload in field data           *)
(* A text (address, description) is a sequence of one-character strings.   *)
(* The result of a function that may throw is a record [ok, value] or      *)
(* [ok, error].                                                            *)
(***************************************************************************)
Returned(v) == [ok |-> TRUE, value |-> v]

Thrown(e) == [ok |-> FALSE, error |-> e]

\* the truthiness of a payload value that is a number or null
Truthy(v) == "n" \in DOMAIN v /\ v.n # 0

\* data[key] || default
OrDefault(data, key, default) ==
  IF key \in DOMAIN data /\ Truthy(data[key]) THEN data[key] ELSE default

\* data.description || "No description available."
NoDescription == <<"N", "o", "n", "e">>

DescriptionOrDefault(data) ==
  IF "description" \in DOMAIN data /\ data.description # <<>>
  THEN data.description ELSE NoDescription

\* new Array(n) throws a RangeError unless n is a non-negative integer
ValidArrayLength(x) == x.d = 1 /\ x.n >= 0

\* new Array(n).fill(v)
Filled(n, v) == [i \in 1..n |-> v]

\* faulty variant: a payload without numUnits counts as no unit at all
propertyFromPayloadZeroUnits(addr, data) ==
  IF data = JNull THEN Thrown("TypeError")
  ELSE
    LET numUnits == OrDefault(data, "numUnits", Num(0))
        estimatedRent == OrDefault(data, "estimatedRentPerUnit", Zero)
    IN  IF ~ValidArrayLength(numUnits) THEN Thrown("RangeError")
        ELSE Returned(
          [address |-> addr,
           listPrice |-> OrDefault(data, "listPrice", Zero),
           numUnits |-> numUnits,
           estimatedRentPerUnit |-> estimatedRent,
           unitRents |-> Filled(numUnits.n, estimatedRent),
           propertyTaxAnnual |-> OrDefault(data, "propertyTaxAnnual", Zero),
           insuranceAnnual |-> OrDefault(data, "insuranceAnnual", Zero),
           hoaMonthly |-> OrDefault(data, "hoaMonthly", Zero),
           maintenanceRate |-> Num(5),
           vacancyRate |-> Num(5),
           description |-> DescriptionOrDefault(data),
           comps |-> IF "comps" \in DOMAIN data /\ IsArray(data.comps)
                     THEN data.comps.list ELSE <<>>])

\* analyzeProperty from "Process units and rents" on: the PropertyData built
\* from the parsed payload
propertyFromPayload(addr, data) ==
  IF data = JNull THEN Thrown("TypeError")
  ELSE
    LET numUnits == OrDefault(data, "numUnits", Num(1))
        estimatedRent == OrDefault(data, "estimatedRentPerUnit", Zero)
    IN  IF ~ValidArrayLength(numUnits) THEN Thrown("RangeError")
        ELSE Returned(
          [address |-> addr,
           listPrice |-> OrDefault(data, "listPrice", Zero),
           numUnits |-> numUnits,
           estimatedRentPerUnit |-> estimatedRent,
           unitRents |-> Filled(numUnits.n, estimatedRent),
           propertyTaxAnnual |-> OrDefault(data, "propertyTaxAnnual", Zero),
           insuranceAnnual |-> OrDefault(data, "insuranceAnnual", Zero),
           hoaMonthly |-> OrDefault(data, "hoaMonthly", Zero),
           maintenanceRate |-> Num(5),
           vacancyRate |-> Num(5),
           description |-> DescriptionOrDefault(data),
           comps |-> IF "comps" \in DOMAIN data /\ IsArray(data.comps)
                     THEN data.comps.list ELSE <<>>])

analyzeProperty(addr, outcome) ==
  IF outcome.kind = "noApiKey" THEN Thrown("API Key is missing")
  ELSE IF outcome.kind = "networkError" THEN Thrown("network error")
  ELSE IF outcome.kind = "noText" THEN Thrown("No response from AI")
  ELSE IF outcome.kind = "unparseable"
  THEN Thrown("Could not parse JSON response from model")
  ELSE propertyFromPayload(addr, outcome.data)

FailureKinds == {"noApiKey", "networkError", "noText", "unparseable"}

Failures == {[kind |-> k] : k \in FailureKinds}

Parsed(data) == [kind |-> "parsed", data |-> data]

\* payloads: every field may be absent; a number may be 0 or null, the unit
\* count negative or fractional, comps something that is not a list
Absent == [absent |-> TRUE]

AbsentText == <<"(absent)">>

SampleAddress == <<"A", " ", "S", "t">>

SampleComp ==
  [address |-> <<"B", " ", "R", "d">>, price |-> Num(1400), type |-> "RENT",
   bedrooms |-> Num(2), bathrooms |-> Num(1)]

PayloadChoices ==
  [listPrice : {Absent, JNull, Num(0), Num(200000)},
   numUnits : {Absent, JNull, Num(-1), Norm(5, 2)} \cup NumSet(0..MaxUnits),
   estimatedRentPerUnit : {Absent, Num(0), Num(1500)},
   propertyTaxAnnual : {Absent, Num(2400)},
   insuranceAnnual : {Absent, Num(1200)},
   hoaMonthly : {Absent, Num(0), Num(100)},
   description : {AbsentText, <<>>, <<"D", "u", "p", "l", "e", "x">>},
   comps : {Absent, JNull, JArray(<<>>), JArray(<<SampleComp>>)}]

IsAbsent(k, v) == IF k = "description" THEN v = AbsentText ELSE v = Absent

\* the object that has the chosen fields and lacks the others
Strip(c) == [k \in {f \in DOMAIN c : ~IsAbsent(f, c[f])} |-> c[k]]

Payloads == {Strip(c) : c \in PayloadChoices} \cup {JNull}

ProviderInit ==
  /\ response \in Failures \cup {Parsed(d) : d \in Payloads}
  /\ analysis = JNull
  /\ CalcIdle
  /\ InputsIdle
  /\ AppIdle

Analyze ==
  /\ analysis = JNull
  /\ analysis' = analyzeProperty(SampleAddress, response)
  /\ UNCHANGED <<response, calcVars, inputVars, appVars>>

ProviderNext == Analyze

ProviderSpec == ProviderInit /\ [][ProviderNext]_vars

Analyzed == analysis # JNull /\ response.kind = "parsed"

NumericPayloadKeys ==
  {"listPrice", "estimatedRentPerUnit", "propertyTaxAnnual", "insuranceAnnual",
   "hoaMonthly"}

\* the payload has no value for the key: the key is absent or holds null
Lacks(data, k) == k \notin DOMAIN data \/ data[k] = JNull

\* C15 (as stated): for every parsed payload analyzeProperty returns a
\* PropertyData in which each of listPrice, estimatedRentPerUnit,
\* propertyTaxAnnual, insuranceAnnual and hoaMonthly is the payload's value, or
\* 0 when the payload lacks it; numUnits is the payload's value or 1 when
\* lacking; maintenanceRate and vacancyRate are 5; comps is the payload's list
\* or the empty list.
C15_PayloadValueOrDefault ==
  Analyzed =>
    /\ analysis.ok
    /\ \A k \in NumericPayloadKeys :
         analysis.value[k] =
           IF Lacks(response.data, k) THEN Zero ELSE response.data[k]
    /\ analysis.value.numUnits =
         IF Lacks(response.data, "numUnits") THEN Num(1)
         ELSE response.data.numUnits
    /\ analysis.value.maintenanceRate = Num(5)
    /\ analysis.value.vacancyRate = Num(5)
    /\ analysis.value.comps =
         IF "comps" \in DOMAIN response.data /\ "list" \in DOMAIN response.data.comps
         THEN response.data.comps.list ELSE <<>>

NonZeroNumber(data, k) ==
  k \in DOMAIN data /\ "n" \in DOMAIN data[k] /\ data[k] # Zero

\* numUnits is absent, null, 0 or a positive integer
UsableUnitCount(data) ==
  NonZeroNumber(data, "numUnits") =>
    (data.numUnits.d = 1 /\ data.numUnits.n > 0)

\* C15 (amended): for every parsed payload that is an object whose numUnits is
\* absent, null, 0 or a positive integer, analyzeProperty returns a
\* PropertyData in which each of the five amounts is the payload's value when
\* that is a non-zero number and 0 otherwise, numUnits is the payload's value
\* when that is a non-zero number and 1 otherwise, maintenanceRate and
\* vacancyRate are 5 and comps is the payload's list or the empty list; for
\* any other parsed payload it throws.
C15_TruthyPayloadValueOrDefault ==
  Analyzed =>
    IF response.data # JNull /\ UsableUnitCount(response.data)
    THEN
      /\ analysis.ok
      /\ \A k \in NumericPayloadKeys :
           analysis.value[k] =
             IF NonZeroNumber(response.data, k) THEN response.data[k] ELSE Zero
      /\ analysis.value.numUnits =
           IF NonZeroNumber(response.data, "numUnits")
           THEN response.data.numUnits ELSE Num(1)
      /\ analysis.value.maintenanceRate = Num(5)
      /\ analysis.value.vacancyRate = Num(5)
      /\ analysis.value.comps =
           IF "comps" \in DOMAIN response.data /\ "list" \in DOMAIN response.data.comps
           THEN response.data.comps.list ELSE <<>>
    ELSE ~analysis.ok

\* an empty payload object: every amount is 0, there is 1 unit and no comps
C15_Witness ==
  /\ Analyzed
  /\ response.data # JNull
  /\ DOMAIN response.data = {}
  /\ analysis.ok
  /\ analysis.value.listPrice = Zero
  /\ analysis.value.numUnits = Num(1)
  /\ analysis.value.unitRents = <<Zero>>
  /\ analysis.value.comps = <<>>

(***************************************************************************)
(* Texts and their encodings.  A text is a sequence of one-character       *)
(* strings.                                                                *)
(***************************************************************************)
LowerChar(c) ==
  CASE c = "A" -> "a"
    [] c = "B" -> "b"
    [] c = "R" -> "r"
    [] c = "U" -> "u"
    [] OTHER -> c

\* String.prototype.toLowerCase
ToLowerCase(t) == [i \in DOMAIN t |-> LowerChar(t[i])]

RECURSIVE TrimStart(_)
TrimStart(t) == IF t # <<>> /\ Head(t) = " " THEN TrimStart(Tail(t)) ELSE t

RECURSIVE TrimEnd(_)
TrimEnd(t) ==
  IF t # <<>> /\ t[Len(t)] = " " THEN TrimEnd(SubSeq(t, 1, Len(t) - 1)) ELSE t

\* String.prototype.trim
Trim(t) == TrimEnd(TrimStart(t))

HexDigits ==
  {"0", "1", "2", "3", "4", "5", "6", "7", "8", "9",
   "A", "B", "C", "D", "E", "F", "a", "b", "c", "d", "e", "f"}

\* the character with the code written by two hexadecimal digits; only the
\* codes that occur with the characters of the model are listed
HexPairChar(x, y) ==
  CASE x = "2" /\ y = "0" -> " "
    [] x = "2" /\ y = "2" -> "\""
    [] x = "2" /\ y = "5" -> "%"
    [] x = "5" /\ y = "2" -> "R"
    [] x = "5" /\ y = "5" -> "U"
    [] x = "5" /\ y \in {"C", "c"} -> "\\"
    [] OTHER -> "?"

\* encodeURIComponent of one character
EscapedChar(c) ==
  CASE c = "%" -> <<"%", "2", "5">>
    [] c = " " -> <<"%", "2", "0">>
    [] c = "\"" -> <<"%", "2", "2">>
    [] c = "\\" -> <<"%", "5", "C">>
    [] OTHER -> <<c>>

RECURSIVE EncodeText(_)
EncodeText(t) == IF t = <<>> THEN <<>> ELSE EscapedChar(Head(t)) \o EncodeText(Tail(t))

\* a "%" followed by two hexadecimal digits
EscapeAt(t) == Len(t) >= 3 /\ t[1] = "%" /\ t[2] \in HexDigits /\ t[3] \in HexDigits

\* the percent-decoding of URLSearchParams: an escape sequence is replaced by
\* its character, a "%" that starts no escape sequence is kept
RECURSIVE DecodeLenient(_)
DecodeLenient(t) ==
  IF t = <<>> THEN <<>>
  ELSE IF EscapeAt(t)
  THEN <<HexPairChar(t[2], t[3])>> \o DecodeLenient(SubSeq(t, 4, Len(t)))
  ELSE <<Head(t)>> \o DecodeLenient(Tail(t))

\* decodeURIComponent throws a URIError on a "%" that starts no escape sequence
RECURSIVE WellEscaped(_)
WellEscaped(t) ==
  IF t = <<>> THEN TRUE
  ELSE IF Head(t) = "%" THEN EscapeAt(t) /\ WellEscaped(SubSeq(t, 4, Len(t)))
  ELSE WellEscaped(Tail(t))

\* the content of a JSON string literal: quote and backslash are escaped
JsonEscapedChar(c) ==
  CASE c = "\"" -> <<"\\", "\"">>
    [] c = "\\" -> <<"\\", "\\">>
    [] OTHER -> <<c>>

RECURSIVE JsonEscape(_)
JsonEscape(t) ==
  IF t = <<>> THEN <<>> ELSE JsonEscapedChar(Head(t)) \o JsonEscape(Tail(t))

\* a string literal's content is well formed: no bare quote, no lone backslash
RECURSIVE WellQuoted(_)
WellQuoted(t) ==
  IF t = <<>> THEN TRUE
  ELSE IF Head(t) = "\\"
  THEN Len(t) >= 2 /\ t[2] \in {"\\", "\""} /\ WellQuoted(SubSeq(t, 3, Len(t)))
  ELSE Head(t) # "\"" /\ WellQuoted(Tail(t))

RECURSIVE JsonUnescape(_)
JsonUnescape(t) ==
  IF t = <<>> THEN <<>>
  ELSE IF Head(t) = "\\" THEN <<t[2]>> \o JsonUnescape(SubSeq(t, 3, Len(t)))
  ELSE <<Head(t)>> \o JsonUnescape(Tail(t))

(***************************************************************************)
(* JSON texts.  The text JSON.stringify makes of a value is modelled by    *)
(* the value in which every string holds the content of its string         *)
(* literal (JsonEscape) and every non-finite number is null; a text that   *)
(* is not JSON at all is Garbage.  The structural characters of a JSON     *)
(* text are all ASCII characters that encodeURIComponent escapes and any   *)
(* decoding restores, so a percent-encoding or -decoding of a JSON text    *)
(* acts on the contents of its string literals.                            *)
(***************************************************************************)
Garbage == [garbage |-> TRUE]

JsonText(v) == [json |-> v]

TextKeys == {"address", "description"}

\* the text t put through one of the four codings of strings
Recoded(t, coding) ==
  CASE coding = "JsonEscape" -> JsonEscape(t)
    [] coding = "JsonUnescape" -> JsonUnescape(t)
    [] coding = "EncodeText" -> EncodeText(t)
    [] coding = "DecodeLenient" -> DecodeLenient(t)

MapComp(c, coding) ==
  [k \in DOMAIN c |-> IF k = "address" THEN Recoded(c[k], coding) ELSE c[k]]

\* the PropertyData p with each of its strings recoded
MapProperty(p, coding) ==
  [k \in DOMAIN p |->
     IF k \in TextKeys THEN Recoded(p[k], coding)
     ELSE IF k = "comps" THEN [i \in DOMAIN p[k] |-> MapComp(p[k][i], coding)]
     ELSE p[k]]

PropertyTexts(p) ==
  {p[k] : k \in DOMAIN p \cap TextKeys} \cup
  (IF "comps" \in DOMAIN p THEN {p.comps[i].address : i \in DOMAIN p.comps} ELSE {})

\* a share object { property, params } or a SavedAnalysis
MapObject(o, coding) ==
  [k \in DOMAIN o |->
     IF k = "address" THEN Recoded(o[k], coding)
     ELSE IF k = "property" THEN MapProperty(o[k], coding)
     ELSE o[k]]

ObjectTexts(o) ==
  {o[k] : k \in DOMAIN o \cap {"address"}} \cup
  (IF "property" \in DOMAIN o THEN PropertyTexts(o.property) ELSE {})

MapValue(v, coding) ==
  IF IsArray(v) THEN JArray([i \in DOMAIN v.list |-> MapObject(v.list[i], coding)])
  ELSE MapObject(v, coding)

ValueTexts(v) ==
  IF IsArray(v) THEN UNION {ObjectTexts(v.list[i]) : i \in DOMAIN v.list}
  ELSE ObjectTexts(v)

\* JSON.stringify writes NaN and the infinities as null
JsonNumber(x) == IF "n" \in DOMAIN x /\ x.d = 0 THEN JNull ELSE x

NumbersToJson(r) ==
  [k \in DOMAIN r |->
     IF k \in TextKeys \cup {"comps"} THEN r[k]
     ELSE IF k = "unitRents" THEN [i \in DOMAIN r[k] |-> JsonNumber(r[k][i])]
     ELSE JsonNumber(r[k])]

ObjectToJson(o) ==
  [k \in DOMAIN o |->
     IF k \in {"property", "params"} THEN NumbersToJson(o[k]) ELSE o[k]]

ValueToJson(v) ==
  IF IsArray(v) THEN JArray([i \in DOMAIN v.list |-> ObjectToJson(v.list[i])])
  ELSE ObjectToJson(v)

JSONstringify(v) == JsonText(MapValue(ValueToJson(v), "JsonEscape"))

JSONparse(text) ==
  IF text = Garbage THEN Thrown("SyntaxError")
  ELSE IF \E t \in ValueTexts(text.json) : ~WellQuoted(t) THEN Thrown("SyntaxError")
  ELSE Returned(MapValue(text.json, "JsonUnescape"))

encodeURIComponent(text) ==
  IF text = Garbage THEN Garbage ELSE JsonText(MapValue(text.json, "EncodeText"))

\* URLSearchParams.get: the value of the parameter, percent-decoded
URLSearchParamsGet(text) ==
  IF text = Garbage THEN Garbage ELSE JsonText(MapValue(text.json, "DecodeLenient"))

decodeURIComponent(text) ==
  IF text = Garbage THEN Returned(Garbage)
  ELSE IF \E t \in ValueTexts(text.json) : ~WellEscaped(t) THEN Thrown("URIError")
  ELSE Returned(JsonText(MapValue(text.json, "DecodeLenient")))

(***************************************************************************)
(* App.tsx: the state of the App component, the browser around it          *)
(* (localStorage, the share parameter of the URL, the clipboard, the       *)
(* clock), and its handlers.  A pending analyzeProperty call is kept in    *)
(* inflight with the address, history and financialParams of the render    *)
(* in which handleSearch was called: these are the values its              *)
(* continuation uses.  lastEvent names the handler that ran last.          *)
(***************************************************************************)
\* Date.now() is read by saveToHistory; successive saves happen at successive
\* times, up to MaxClock
MaxClock == 2

\* the clock after a handler that called saveToHistory (or did not)
Later(called) == IF called THEN now + 1 ELSE now

\* apiKey.trim().length > 10
KeyMinLength == 10

ShareError == "The shared link is invalid or corrupted."

GenericError ==
  "We couldn't analyze that property. Please check the address, your API Key, or try again later."

\* the screens of the render
Gatekeeper == ~isKeyEntered /\ ~sharedView

DashboardShown == ~Gatekeeper /\ propertyData # JNull

\* history.length of null, and calculateMetrics of an absent property or
\* params, throw while the search screen renders
RenderThrows(h) ==
  \/ h = JNull
  \/ /\ IsArray(h)
     /\ \E i \in DOMAIN h.list : ~({"property", "params"} \subseteq DOMAIN h.list[i])

SearchShown == ~Gatekeeper /\ propertyData = JNull /\ ~RenderThrows(history)

\* { id, timestamp, address: prop.address, property: prop, params }
newItem(prop, par, t) ==
  (IF "address" \in DOMAIN prop THEN [address |-> prop.address] ELSE <<>>) @@
  [id |-> t, timestamp |-> t, property |-> prop, params |-> par]

SameAddress(h, prop) == ToLowerCase(h.address) = ToLowerCase(prop.address)

\* faulty variant: the older entries of the address are kept
saveToHistoryKeepingOlder(hist, prop, par, t) ==
  IF ~IsArray(hist) \/ prop = JNull THEN Thrown("TypeError")
  ELSE IF /\ hist.list # <<>>
          /\ \/ "address" \notin DOMAIN prop
             \/ \E i \in DOMAIN hist.list : "address" \notin DOMAIN hist.list[i]
  THEN Thrown("TypeError")
  ELSE Returned(JArray(<<newItem(prop, par, t)>> \o hist.list))

\* saveToHistory up to setHistory: the new history, built from the history
\* hist of the render the caller belongs to, at time t
saveToHistory(hist, prop, par, t) ==
  IF ~IsArray(hist) \/ prop = JNull THEN Thrown("TypeError")
  ELSE IF /\ hist.list # <<>>
          /\ \/ "address" \notin DOMAIN prop
             \/ \E i \in DOMAIN hist.list : "address" \notin DOMAIN hist.list[i]
  THEN Thrown("TypeError")
  ELSE Returned(JArray(<<newItem(prop, par, t)>> \o
                       SelectSeq(hist.list, LAMBDA h : ~SameAddress(h, prop))))

\* history.filter(h => h.id !== id)
deleteHistoryItem(hist, id) ==
  JArray(SelectSeq(hist.list, LAMBDA h : "id" \notin DOMAIN h \/ h.id # id))

\* setHistory(newHistory); localStorage.setItem('caprate_history', ...):
\* the history and the stored item after a save or a deletion whose write
\* succeeds (writeOk) or throws
Persisted(newHistory, writeOk) ==
  [history |-> newHistory,
   storedHistory |-> IF writeOk THEN JSONstringify(newHistory) ELSE storedHistory]

\* [key]: value of handleParamChange
handleParamChange(q, key, value) == Spread(q, key :> value)

\* the shared-data part of the mount effect: what it sets
SharedData(param) ==
  LET kept == [propertyData |-> propertyData, financialParams |-> financialParams,
               sharedView |-> sharedView, error |-> error]
      failed == [kept EXCEPT !.error = ShareError]
  IN  IF param = NoItem THEN kept
      ELSE
        LET sharedDataRaw == URLSearchParamsGet(param.text)
            unescaped == decodeURIComponent(sharedDataRaw)
        IN  IF ~unescaped.ok THEN failed
            ELSE
              LET parsed == JSONparse(unescaped.value)
              IN  IF ~parsed.ok \/ parsed.value = JNull THEN failed
                  ELSE
                    LET decoded == parsed.value
                    IN  IF /\ ~IsArray(decoded)
                           /\ {"property", "params"} \subseteq DOMAIN decoded
                           /\ decoded.property # JNull /\ decoded.params # JNull
                        THEN [propertyData |-> decoded.property,
                              financialParams |-> decoded.params,
                              sharedView |-> TRUE, error |-> error]
                        ELSE kept

OtherVars == <<calcVars, inputVars, providerVars>>

\* useEffect(..., []): the mount effect
Mount ==
  /\ ~mounted
  /\ LET shared == SharedData(shareParam)
         keyFound == storedKey # NoItem /\ storedKey.text # <<>>
         parsed == IF storedHistory = NoItem THEN Thrown("no item")
                   ELSE JSONparse(storedHistory)
     IN  /\ propertyData' = shared.propertyData
         /\ financialParams' = shared.financialParams
         /\ sharedView' = shared.sharedView
         /\ error' = shared.error
         /\ apiKey' = IF keyFound THEN storedKey.text ELSE apiKey
         /\ isKeyEntered' = (keyFound \/ isKeyEntered)
         /\ history' = IF parsed.ok THEN parsed.value ELSE history
  /\ mounted' = TRUE
  /\ lastEvent' = [op |-> "mount"]
  /\ UNCHANGED <<address, loading, storedKey, storedHistory, shareParam,
                 clipboard, inflight, now, OtherVars>>

\* onChange of the key input: setApiKey(e.target.value)
SetApiKey(key) ==
  /\ mounted /\ Gatekeeper
  /\ apiKey' = key
  /\ lastEvent' = [op |-> "setApiKey"]
  /\ UNCHANGED <<isKeyEntered, address, loading, error, propertyData,
                 financialParams, history, sharedView, storedKey, storedHistory,
                 shareParam, clipboard, inflight, now, mounted, OtherVars>>

HandleKeySubmit ==
  /\ mounted /\ Gatekeeper
  /\ IF Len(Trim(apiKey)) > KeyMinLength
     THEN storedKey' = [text |-> Trim(apiKey)] /\ isKeyEntered' = TRUE
     ELSE UNCHANGED <<storedKey, isKeyEntered>>
  /\ lastEvent' = [op |-> "handleKeySubmit"]
  /\ UNCHANGED <<apiKey, address, loading, error, propertyData, financialParams,
                 history, sharedView, storedHistory, shareParam, clipboard,
                 inflight, now, mounted, OtherVars>>

\* faulty variant: the history goes with the key
HandleLogoutClearingHistory(confirmed) ==
  /\ mounted /\ SearchShown
  /\ IF confirmed
     THEN /\ storedKey' = NoItem
          /\ apiKey' = <<>>
          /\ isKeyEntered' = FALSE
          /\ propertyData' = JNull
          /\ sharedView' = FALSE
          /\ history' = JArray(<<>>)
          /\ storedHistory' = NoItem
     ELSE UNCHANGED <<storedKey, apiKey, isKeyEntered, propertyData, sharedView,
                      history, storedHistory>>
  /\ lastEvent' = [op |-> "handleLogout", confirmed |-> confirmed]
  /\ UNCHANGED <<address, loading, error, financialParams,
                 shareParam, clipboard, inflight, now, mounted, OtherVars>>

\* handleLogout, with the answer given to window.confirm
HandleLogout(confirmed) ==
  /\ mounted /\ SearchShown
  /\ IF confirmed
     THEN /\ storedKey' = NoItem
          /\ apiKey' = <<>>
          /\ isKeyEntered' = FALSE
          /\ propertyData' = JNull
          /\ sharedView' = FALSE
          /\ UNCHANGED <<history, storedHistory>>
     ELSE UNCHANGED <<storedKey, apiKey, isKeyEntered, propertyData, sharedView,
                      history, storedHistory>>
  /\ lastEvent' = [op |-> "handleLogout", confirmed |-> confirmed]
  /\ UNCHANGED <<address, loading, error, financialParams,
                 shareParam, clipboard, inflight, now, mounted, OtherVars>>

\* onChange of the address input, which is disabled while loading
SetAddress(text) ==
  /\ mounted /\ SearchShown /\ ~loading
  /\ address' = text
  /\ lastEvent' = [op |-> "setAddress"]
  /\ UNCHANGED <<apiKey, isKeyEntered, loading, error, propertyData,
                 financialParams, history, sharedView, storedKey, storedHistory,
                 shareParam, clipboard, inflight, now, mounted, OtherVars>>

\* faulty variant: the error of an earlier search is not cleared
HandleSearchKeepingError ==
  /\ mounted /\ SearchShown /\ ~loading
  /\ IF Trim(address) = <<>>
     THEN /\ lastEvent' = [op |-> "handleSearch", started |-> FALSE]
          /\ UNCHANGED <<loading, propertyData, sharedView, inflight>>
     ELSE /\ loading' = TRUE
          /\ propertyData' = JNull
          /\ sharedView' = FALSE
          /\ inflight' = <<[address |-> address, history |-> history,
                            financialParams |-> financialParams]>>
          /\ lastEvent' = [op |-> "handleSearch", started |-> TRUE]
  /\ UNCHANGED <<apiKey, isKeyEntered, address, error, financialParams, history,
                 storedKey, storedHistory, shareParam, clipboard, now, mounted,
                 OtherVars>>

\* handleSearch up to the await; the form cannot be submitted while loading
HandleSearch ==
  /\ mounted /\ SearchShown /\ ~loading
  /\ IF Trim(address) = <<>>
     THEN /\ lastEvent' = [op |-> "handleSearch", started |-> FALSE]
          /\ UNCHANGED <<loading, error, propertyData, sharedView, inflight>>
     ELSE /\ loading' = TRUE
          /\ error' = NoError
          /\ propertyData' = JNull
          /\ sharedView' = FALSE
          /\ inflight' = <<[address |-> address, history |-> history,
                            financialParams |-> financialParams]>>
          /\ lastEvent' = [op |-> "handleSearch", started |-> TRUE]
  /\ UNCHANGED <<apiKey, isKeyEntered, address, financialParams, history,
                 storedKey, storedHistory, shareParam, clipboard, now, mounted,
                 OtherVars>>

\* faulty variant: a failure of the provider leaves the error as it was
SearchSettlesSilently(outcome, writeOk) ==
  /\ mounted /\ inflight # <<>>
  /\ analyzeProperty(Head(inflight).address, outcome).ok => now < MaxClock
  /\ LET call == Head(inflight)
         result == analyzeProperty(call.address, outcome)
         saved == IF result.ok
                  THEN saveToHistory(call.history, result.value,
                                     call.financialParams, now)
                  ELSE Thrown("rejected")
     IN  /\ propertyData' = IF result.ok THEN result.value ELSE propertyData
         /\ history' = IF saved.ok THEN saved.value ELSE history
         /\ storedHistory' = IF saved.ok
                             THEN Persisted(saved.value, writeOk).storedHistory
                             ELSE storedHistory
         /\ error' = IF result.ok /\ ~(saved.ok /\ writeOk) THEN GenericError ELSE error
         /\ lastEvent' = [op |-> "searchSettles", outcome |-> outcome.kind,
                          resolved |-> result.ok, saved |-> saved.ok,
                          writeOk |-> saved.ok /\ writeOk]
  /\ now' = Later(analyzeProperty(Head(inflight).address, outcome).ok)
  /\ loading' = FALSE
  /\ inflight' = <<>>
  /\ UNCHANGED <<apiKey, isKeyEntered, address, financialParams, sharedView,
                 storedKey, shareParam, clipboard, mounted, OtherVars>>

\* faulty variant: there is no finally block, a rejected call leaves loading
\* as it was
SearchSettlesWithoutFinally(outcome, writeOk) ==
  /\ mounted /\ inflight # <<>>
  /\ analyzeProperty(Head(inflight).address, outcome).ok => now < MaxClock
  /\ LET call == Head(inflight)
         result == analyzeProperty(call.address, outcome)
         saved == IF result.ok
                  THEN saveToHistory(call.history, result.value,
                                     call.financialParams, now)
                  ELSE Thrown("rejected")
     IN  /\ propertyData' = IF result.ok THEN result.value ELSE propertyData
         /\ history' = IF saved.ok THEN saved.value ELSE history
         /\ storedHistory' = IF saved.ok
                             THEN Persisted(saved.value, writeOk).storedHistory
                             ELSE storedHistory
         /\ error' = IF saved.ok /\ writeOk THEN error ELSE GenericError
         /\ loading' = IF saved.ok /\ writeOk THEN FALSE ELSE loading
         /\ lastEvent' = [op |-> "searchSettles", outcome |-> outcome.kind,
                          resolved |-> result.ok, saved |-> saved.ok,
                          writeOk |-> saved.ok /\ writeOk]
  /\ now' = Later(analyzeProperty(Head(inflight).address, outcome).ok)
  /\ inflight' = <<>>
  /\ UNCHANGED <<apiKey, isKeyEntered, address, financialParams, sharedView,
                 storedKey, shareParam, clipboard, mounted, OtherVars>>

\* handleSearch from the await on: analyzeProperty resolves or rejects, and
\* the try, catch and finally blocks run
SearchSettles(outcome, writeOk) ==
  /\ mounted /\ inflight # <<>>
  /\ analyzeProperty(Head(inflight).address, outcome).ok => now < MaxClock
  /\ LET call == Head(inflight)
         result == analyzeProperty(call.address, outcome)
         saved == IF result.ok
                  THEN saveToHistory(call.history, result.value,
                                     call.financialParams, now)
                  ELSE Thrown("rejected")
     IN  /\ propertyData' = IF result.ok THEN result.value ELSE propertyData
         /\ history' = IF saved.ok THEN saved.value ELSE history
         /\ storedHistory' = IF saved.ok
                             THEN Persisted(saved.value, writeOk).storedHistory
                             ELSE storedHistory
         /\ error' = IF saved.ok /\ writeOk THEN error ELSE GenericError
         /\ lastEvent' = [op |-> "searchSettles", outcome |-> outcome.kind,
                          resolved |-> result.ok, saved |-> saved.ok,
                          writeOk |-> saved.ok /\ writeOk]
  /\ now' = Later(analyzeProperty(Head(inflight).address, outcome).ok)
  /\ loading' = FALSE
  /\ inflight' = <<>>
  /\ UNCHANGED <<apiKey, isKeyEntered, address, financialParams, sharedView,
                 storedKey, shareParam, clipboard, mounted, OtherVars>>

\* a click on the i-th entry of the history list
LoadFromHistory(i) ==
  /\ mounted /\ SearchShown /\ IsArray(history) /\ i \in DOMAIN history.list
  /\ LET item == history.list[i]
     IN  /\ propertyData' = item.property
         /\ financialParams' = item.params
         /\ address' = item.address
  /\ error' = NoError
  /\ lastEvent' = [op |-> "loadFromHistory", index |-> i]
  /\ UNCHANGED <<apiKey, isKeyEntered, loading, history, sharedView, storedKey,
                 storedHistory, shareParam, clipboard, inflight, now, mounted,
                 OtherVars>>

\* a click on the delete button of the i-th entry of the history list
DeleteHistoryItem(i, writeOk) ==
  /\ mounted /\ SearchShown /\ IsArray(history) /\ i \in DOMAIN history.list
  /\ LET id == history.list[i].id
         after == Persisted(deleteHistoryItem(history, id), writeOk)
     IN  /\ history' = after.history
         /\ storedHistory' = after.storedHistory
         /\ lastEvent' = [op |-> "deleteHistoryItem", id |-> id, writeOk |-> writeOk]
  /\ UNCHANGED <<apiKey, isKeyEntered, address, loading, error, propertyData,
                 financialParams, sharedView, storedKey, shareParam, clipboard,
                 inflight, now, mounted, OtherVars>>

\* faulty variant: the shared view is not left
HandleBackKeepingSharedView ==
  /\ mounted /\ DashboardShown
  /\ propertyData' = JNull
  /\ address' = <<>>
  /\ error' = NoError
  /\ shareParam' = NoItem
  /\ lastEvent' = [op |-> "handleBack"]
  /\ UNCHANGED <<apiKey, isKeyEntered, loading, financialParams, history,
                 sharedView, storedKey, storedHistory, clipboard, inflight, now,
                 mounted, OtherVars>>

HandleBack ==
  /\ mounted /\ DashboardShown
  /\ propertyData' = JNull
  /\ address' = <<>>
  /\ error' = NoError
  /\ sharedView' = FALSE
  /\ shareParam' = NoItem
  /\ lastEvent' = [op |-> "handleBack"]
  /\ UNCHANGED <<apiKey, isKeyEntered, loading, financialParams, history,
                 storedKey, storedHistory, clipboard, inflight, now, mounted,
                 OtherVars>>

\* handleShare: the link put on the clipboard, kept with the object it was
\* made of
HandleShare ==
  /\ mounted /\ DashboardShown
  /\ LET shareObj == [property |-> propertyData, params |-> financialParams]
     IN  clipboard' = [text |-> encodeURIComponent(JSONstringify(shareObj)),
                       of |-> shareObj]
  /\ lastEvent' = [op |-> "handleShare"]
  /\ UNCHANGED <<stateVars, storedKey, storedHistory, shareParam, inflight, now,
                 mounted, OtherVars>>

\* the Dashboard callbacks: an edit is saved unless the view is a shared one;
\* an exception of saveToHistory leaves the handler after setPropertyData or
\* setFinancialParams
\* faulty variant: the edit is saved in a shared view too
OnPropertyChangeAlwaysSaving(p, writeOk) ==
  /\ mounted /\ DashboardShown /\ now < MaxClock
  /\ propertyData' = p
  /\ LET saved == saveToHistory(history, p, financialParams, now)
     IN  /\ history' = IF saved.ok THEN saved.value ELSE history
         /\ storedHistory' = IF saved.ok
                             THEN Persisted(saved.value, writeOk).storedHistory
                             ELSE storedHistory
         /\ lastEvent' = [op |-> "onPropertyChange", saved |-> saved.ok,
                          writeOk |-> saved.ok /\ writeOk]
  /\ now' = Later(TRUE)
  /\ UNCHANGED <<apiKey, isKeyEntered, address, loading, error, financialParams,
                 sharedView, storedKey, shareParam, clipboard, inflight,
                 mounted, OtherVars>>

OnPropertyChange(p, writeOk) ==
  /\ mounted /\ DashboardShown /\ (sharedView \/ now < MaxClock)
  /\ propertyData' = p
  /\ LET saved == IF sharedView THEN Thrown("not saved")
                  ELSE saveToHistory(history, p, financialParams, now)
     IN  /\ history' = IF saved.ok THEN saved.value ELSE history
         /\ storedHistory' = IF saved.ok
                             THEN Persisted(saved.value, writeOk).storedHistory
                             ELSE storedHistory
         /\ lastEvent' = [op |-> "onPropertyChange", saved |-> saved.ok,
                          writeOk |-> saved.ok /\ writeOk]
  /\ now' = Later(~sharedView)
  /\ UNCHANGED <<apiKey, isKeyEntered, address, loading, error, financialParams,
                 sharedView, storedKey, shareParam, clipboard, inflight,
                 mounted, OtherVars>>

OnParamsChange(q, writeOk) ==
  /\ mounted /\ DashboardShown /\ (sharedView \/ now < MaxClock)
  /\ financialParams' = q
  /\ LET saved == IF sharedView THEN Thrown("not saved")
                  ELSE saveToHistory(history, propertyData, q, now)
     IN  /\ history' = IF saved.ok THEN saved.value ELSE history
         /\ storedHistory' = IF saved.ok
                             THEN Persisted(saved.value, writeOk).storedHistory
                             ELSE storedHistory
         /\ lastEvent' = [op |-> "onParamsChange", saved |-> saved.ok,
                          writeOk |-> saved.ok /\ writeOk]
  /\ now' = Later(~sharedView)
  /\ UNCHANGED <<apiKey, isKeyEntered, address, loading, error, propertyData,
                 sharedView, storedKey, shareParam, clipboard, inflight,
                 mounted, OtherVars>>

\* the link on the clipboard is opened: a new App is constructed on a page
\* whose share parameter is the one of the link
OpenSharedLink ==
  /\ mounted /\ clipboard # NoItem
  /\ apiKey' = <<>>
  /\ isKeyEntered' = FALSE
  /\ address' = <<>>
  /\ loading' = FALSE
  /\ error' = NoError
  /\ propertyData' = JNull
  /\ financialParams' = DEFAULT_PARAMS
  /\ history' = JArray(<<>>)
  /\ sharedView' = FALSE
  /\ shareParam' = clipboard
  /\ inflight' = <<>>
  /\ mounted' = FALSE
  /\ lastEvent' = [op |-> "openSharedLink"]
  /\ UNCHANGED <<storedKey, storedHistory, clipboard, now, OtherVars>>

(***************************************************************************)
(* The App in use: it is constructed in a browser with or without a stored *)
(* key and with nothing else stored, mounts, and the user enters a key,    *)
(* searches, opens and deletes history entries, edits an analysis and logs *)
(* out while the provider answers or fails and localStorage writes succeed *)
(* or throw.                                                               *)
(***************************************************************************)
KeyText(n) == [i \in 1..n |-> "k"]

\* a key of exactly KeyMinLength characters, and a longer one typed with
\* spaces around it
TypedKeys == {KeyText(KeyMinLength), <<" ">> \o KeyText(KeyMinLength + 1) \o <<" ">>}

StoredKeys == {NoItem, [text |-> KeyText(KeyMinLength + 1)]}

TypedAddresses == {<<" ">>, <<"A">>, <<"a">>, <<"B">>}

SamplePayload ==
  [listPrice |-> Num(200000), numUnits |-> Num(1),
   estimatedRentPerUnit |-> Num(1500), propertyTaxAnnual |-> Num(2400),
   insuranceAnnual |-> Num(1200), hoaMonthly |-> Zero]

\* the provider fails in each of its ways, answers null, or answers a payload
Outcomes == Failures \cup {Parsed(JNull), Parsed(SamplePayload)}

\* the edits of the dashboard that are followed
PropertyEdits(p) == {handleNumUnitsChange(p, Num(MaxUnits))}

ParamsEdits(q) == {handleParamChange(q, "loanTermYears", Num(15))}

AppInit ==
  /\ StateConstructed
  /\ storedKey \in StoredKeys
  /\ storedHistory = NoItem /\ shareParam = NoItem /\ clipboard = NoItem
  /\ inflight = <<>> /\ now = 0 /\ mounted = FALSE /\ lastEvent = NoEvent
  /\ CalcIdle /\ InputsIdle /\ ProviderIdle

Logout == \E confirmed \in BOOLEAN : HandleLogout(confirmed)

TypeKey == \E key \in TypedKeys : SetApiKey(key)

TypeAddress == \E text \in TypedAddresses : SetAddress(text)

Settle == \E outcome \in Outcomes, writeOk \in BOOLEAN : SearchSettles(outcome, writeOk)

OpenEntry == \E i \in 1..3 : LoadFromHistory(i)

DeleteEntry == \E i \in 1..3, writeOk \in BOOLEAN : DeleteHistoryItem(i, writeOk)

EditProperty ==
  /\ propertyData # JNull
  /\ \E p \in PropertyEdits(propertyData), writeOk \in BOOLEAN :
       OnPropertyChange(p, writeOk)

EditParams ==
  \E q \in ParamsEdits(financialParams), writeOk \in BOOLEAN : OnParamsChange(q, writeOk)

AppNext ==
  \/ Mount
  \/ TypeKey
  \/ HandleKeySubmit
  \/ Logout
  \/ TypeAddress
  \/ HandleSearch
  \/ Settle
  \/ OpenEntry
  \/ DeleteEntry
  \/ HandleBack
  \/ EditProperty
  \/ EditParams

AppSpec == AppInit /\ [][AppNext]_vars

(***************************************************************************)
(* Claims about the App in use.                                            *)
(***************************************************************************)
HasEntries(h) == IsArray(h) /\ h.list # <<>>

\* C18: a confirmed handleLogout removes the stored key, empties apiKey,
\* makes isKeyEntered and sharedView false and propertyData null, and leaves
\* history and the stored 'caprate_history' as they were; a declined one
\* changes nothing of the App or of the browser.
C18_LogoutKeepsHistory ==
  [][lastEvent'.op = "handleLogout" =>
       IF lastEvent'.confirmed
       THEN /\ storedKey' = NoItem
            /\ apiKey' = <<>>
            /\ isKeyEntered' = FALSE
            /\ sharedView' = FALSE
            /\ propertyData' = JNull
            /\ history' = history
            /\ storedHistory' = storedHistory
       ELSE UNCHANGED <<stateVars, storedKey, storedHistory, shareParam,
                        clipboard, inflight, now, mounted>>]_vars

C18_Witness ==
  /\ lastEvent = [op |-> "handleLogout", confirmed |-> TRUE]
  /\ HasEntries(history)
  /\ storedHistory # NoItem
  /\ storedKey = NoItem

\* C14: whenever the provider call of handleSearch fails (no credential,
\* network failure, empty response, unparseable response, or any other
\* rejection), the step that settles the search leaves error at the one
\* generic message and loading false, and gives neither propertyData nor
\* history nor the stored history a new analysis.
C14_ProviderFailureIsGeneric ==
  [][(/\ lastEvent'.op = "searchSettles"
      /\ lastEvent'.outcome \in FailureKinds \/ ~lastEvent'.resolved) =>
       /\ error' = "We couldn't analyze that property. Please check the address, your API Key, or try again later."
       /\ loading' = FALSE
       /\ propertyData' = propertyData
       /\ history' = history
       /\ storedHistory' = storedHistory]_vars

C14_Witness ==
  /\ lastEvent.op = "searchSettles"
  /\ lastEvent.outcome = "unparseable"
  /\ error # NoError
  /\ ~loading
  /\ HasEntries(history)

SameIgnoringCase(a, b) ==
  /\ Len(a) = Len(b)
  /\ \A i \in 1..Len(a) :
       a[i] = b[i] \/ {a[i], b[i]} \in {{"A", "a"}, {"B", "b"}}

Saved == lastEvent.op \in {"searchSettles", "onPropertyChange", "onParamsChange"}
         /\ lastEvent.saved

\* C20: a save puts the entry of the saved property first and leaves no other
\* entry whose address equals its address ignoring case; and from an empty
\* history on, whatever is saved and deleted, no two entries of the history
\* have addresses that are equal ignoring case.
C20_OneEntryPerAddress ==
  /\ [](IsArray(history) =>
          \A i, j \in DOMAIN history.list :
            i # j => ~SameIgnoringCase(history.list[i].address,
                                       history.list[j].address))
  /\ [][Saved' =>
          /\ history'.list # <<>>
          /\ Head(history'.list).property = propertyData'
          /\ Head(history'.list).address = propertyData'.address
          /\ \A i \in 2..Len(history'.list) :
               ~SameIgnoringCase(history'.list[i].address, propertyData'.address)]_vars

C20_Witness ==
  /\ Saved
  /\ now = 2
  /\ Len(history.list) = 1
  /\ history.list[1].address = <<"a">>
  /\ history.list[1].id = 1

(***************************************************************************)
(* The App loading what a browser holds: it is constructed on a page whose *)
(* URL may carry a share parameter, in a browser whose localStorage may    *)
(* hold a key and a 'caprate_history' item written by this or an earlier   *)
(* version of the App, or damaged; it mounts and the user opens, edits and *)
(* deletes what was loaded.                                                *)
(***************************************************************************)
SampleProperty == analyzeProperty(<<"A">>, Parsed(SamplePayload)).value

\* records written before unitRents, the rates and closingCostsPercent existed
LegacyProperty ==
  [address |-> <<"B">>, listPrice |-> Num(200000), numUnits |-> Num(1),
   estimatedRentPerUnit |-> Num(1500), propertyTaxAnnual |-> Num(2400),
   insuranceAnnual |-> Num(1200)]

LegacyParams ==
  [downPaymentPercent |-> Num(20), interestRate |-> Zero, loanTermYears |-> Num(30)]

StoredHistories ==
  {NoItem, Garbage, JsonText(JNull), JsonText([version |-> Num(1)]),
   JSONstringify(JArray(<<newItem(SampleProperty, DEFAULT_PARAMS, 0)>>)),
   JSONstringify(JArray(<<newItem(LegacyProperty, LegacyParams, 0)>>))}

ShareParams ==
  {NoItem, [text |-> Garbage], [text |-> JsonText(JNull)],
   [text |-> encodeURIComponent(JSONstringify(
               [property |-> SampleProperty, params |-> DEFAULT_PARAMS]))],
   [text |-> encodeURIComponent(JSONstringify(
               [property |-> LegacyProperty, params |-> LegacyParams]))]}

LoadInit ==
  /\ StateConstructed
  /\ storedKey \in StoredKeys
  /\ storedHistory \in StoredHistories
  /\ shareParam \in ShareParams
  /\ clipboard = NoItem /\ inflight = <<>> /\ now = 0
  /\ mounted = FALSE /\ lastEvent = NoEvent
  /\ CalcIdle /\ InputsIdle /\ ProviderIdle

LoadNext ==
  \/ Mount
  \/ TypeKey
  \/ HandleKeySubmit
  \/ Logout
  \/ OpenEntry
  \/ DeleteEntry
  \/ HandleBack
  \/ EditParams

LoadSpec == LoadInit /\ [][LoadNext]_vars

\* the fields that calculateMetrics reads
PropertyFieldsRead ==
  {"listPrice", "numUnits", "estimatedRentPerUnit", "unitRents",
   "propertyTaxAnnual", "insuranceAnnual", "hoaMonthly", "maintenanceRate",
   "vacancyRate"}

ParamsFieldsRead ==
  {"downPaymentPercent", "interestRate", "loanTermYears", "closingCostsPercent"}

\* C13: after the mount effect has loaded a shared payload, and after
\* loadFromHistory has loaded a stored record, propertyData and
\* financialParams have every field that calculateMetrics reads, whichever
\* fields the payload or the record lacked.
C13_LoadedRecordsAreComplete ==
  (lastEvent.op \in {"mount", "loadFromHistory"} /\ propertyData # JNull) =>
    /\ PropertyFieldsRead \subseteq DOMAIN propertyData
    /\ ParamsFieldsRead \subseteq DOMAIN financialParams

\* C16: the App mounts with a list as its history whatever the stored
\* 'caprate_history' holds, and a save or a deletion whose localStorage write
\* throws runs to its end without reporting a failure.
C16_PersistenceFailureIsNoSavedData ==
  /\ [](mounted => IsArray(history))
  /\ [][(/\ lastEvent'.op \in {"searchSettles", "onPropertyChange",
                              "onParamsChange", "deleteHistoryItem"}
         /\ lastEvent'.op # "deleteHistoryItem" => lastEvent'.saved
         /\ ~lastEvent'.writeOk) =>
          error' = error]_vars

(***************************************************************************)
(* Sharing: the user searches an address, copies the share link of the     *)
(* dashboard and opens it, which constructs and mounts a new App on the    *)
(* page of the link.                                                       *)
(***************************************************************************)
ShareAlphabet == {"x", "%", "2", "5"}

\* every address of one character, a '%' before and after another
\* character, and the escape sequence of '%'
SharedAddresses ==
  {<<a>> : a \in ShareAlphabet} \cup
  {<<"%", "x">>, <<"5", "%">>, <<"%", "2", "5">>}

ShareInit ==
  /\ StateConstructed
  /\ storedKey \in StoredKeys \ {NoItem}
  /\ storedHistory = NoItem /\ shareParam = NoItem /\ clipboard = NoItem
  /\ inflight = <<>> /\ now = 0 /\ mounted = FALSE /\ lastEvent = NoEvent
  /\ CalcIdle /\ InputsIdle /\ ProviderIdle

TypeSharedAddress == \E text \in SharedAddresses : SetAddress(text)

ShareNext ==
  \/ Mount
  \/ TypeSharedAddress
  \/ HandleSearch
  \/ Settle
  \/ HandleShare
  \/ OpenSharedLink

ShareSpec == ShareInit /\ [][ShareNext]_vars

\* C19: when the App has mounted on the page of a link that handleShare
\* made, propertyData and financialParams are the ones the link was made
\* of, sharedView is true and there is no error.
C19_ShareRoundTrip ==
  (lastEvent.op = "mount" /\ shareParam # NoItem) =>
    /\ propertyData = shareParam.of.property
    /\ financialParams = shareParam.of.params
    /\ sharedView = TRUE
    /\ error = NoError

(***************************************************************************)
(* calculateMetrics where the growth factor is too large a fraction to     *)
(* write down: (1 + r)^360 as a lowest-terms fraction has hundreds of      *)
(* digits, so the fields that depend on it are enclosed between two        *)
(* integers lo <= hi in units of 1 / FixedPoint, computed with every       *)
(* rounding directed outwards; the true value of the field lies between    *)
(* them.  The fields that do not depend on it are the exact ones above.    *)
(***************************************************************************)
FixedPoint == 10 ^ 4

\* the growth factor less one is divided in units of 10 / PowerScale
Reduced == PowerScale \div 10

\* floor(x * n / d) and ceiling(x * n / d) for n >= 0 and d > 0
MulDivFloor(x, n, d) == (x \div d) * n + ((x % d) * n) \div d

MulDivCeil(x, n, d) == -MulDivFloor(-x, n, d)

\* the enclosure of a number that is known exactly
Enclose(x) ==
  [lo |-> MulDivFloor(x.n, FixedPoint, x.d), hi |-> MulDivCeil(x.n, FixedPoint, x.d)]

\* Math.pow(1 + r, k + 1) from the bounds g of Math.pow(1 + r, k): the
\* multiplication by 1 + r adds the r-fold
Compounded(g, r) ==
  [k |-> g.k + 1,
   lo |-> g.lo + MulDivFloor(g.lo, r.n, r.d),
   hi |-> g.hi + MulDivCeil(g.hi, r.n, r.d)]

\* the quotient q and the remainder r of a division by d carried on by the
\* decimal places of scale (a power of ten)
RECURSIVE LongDiv(_, _, _, _)
LongDiv(q, r, d, scale) ==
  IF scale = 1 THEN [q |-> q, r |-> r]
  ELSE LongDiv(q * 10 + (r * 10) \div d, (r * 10) % d, d, scale \div 10)

\* floor(n * Reduced * FixedPoint / d)
ScaledQuotient(n, d) ==
  LET whole == LongDiv(n \div d, n % d, d, Reduced)
  IN  LongDiv(whole.q, whole.r, d, FixedPoint).q

\* faulty variant: the divisor is the growth factor, not the growth factor
\* less one
amortizedPaymentBoundsNoMinusOne(p, q, P) ==
  Enclose(Mul(loanAmount(p, q), monthlyRate(q)))

\* (loanAmount * monthlyRate * P) / (P - 1) for the bounds P of
\* Math.pow(1 + monthlyRate, numberOfPayments), written as a + a / (P - 1)
\* with a = loanAmount * monthlyRate; it falls as P grows
amortizedPaymentBounds(p, q, P) ==
  LET a == Mul(loanAmount(p, q), monthlyRate(q))
      least == (P.lo - PowerScale) \div 10
      most == -((PowerScale - P.hi) \div 10)
  IN  [lo |-> Enclose(a).lo + ScaledQuotient(a.n, most * a.d),
       hi |-> Enclose(a).hi + ScaledQuotient(a.n, least * a.d) + 1]

Amortized(p, q) == GtZero(loanAmount(p, q)) /\ GtZero(q.interestRate)

monthlyMortgagePaymentBounds(p, q, P) ==
  IF Amortized(p, q)
  THEN amortizedPaymentBounds(p, q, P)
  ELSE Enclose(monthlyMortgagePayment(p, q))

annualDebtServiceBounds(p, q, P) ==
  [lo |-> monthlyMortgagePaymentBounds(p, q, P).lo * Twelve.n,
   hi |-> monthlyMortgagePaymentBounds(p, q, P).hi * Twelve.n]

annualCashFlowBounds(p, q, P) ==
  [lo |-> Enclose(noi(p)).lo - annualDebtServiceBounds(p, q, P).hi,
   hi |-> Enclose(noi(p)).hi - annualDebtServiceBounds(p, q, P).lo]

cashOnCashReturnBounds(p, q, P) ==
  LET invested == totalInitialInvestment(p, q)
  IN  IF GtZero(invested)
      THEN [lo |-> MulDivFloor(annualCashFlowBounds(p, q, P).lo,
                               Hundred.n * invested.d, invested.n),
            hi |-> MulDivCeil(annualCashFlowBounds(p, q, P).hi,
                              Hundred.n * invested.d, invested.n)]
      ELSE Enclose(Zero)

calculateMetricsBounds(p, q, P) ==
  [grossAnnualIncome      |-> potentialGrossIncome(p),
   effectiveGrossIncome   |-> effectiveGrossIncome(p),
   totalOperatingExpenses |-> totalOperatingExpenses(p),
   noi                    |-> noi(p),
   capRate                |-> capRate(p),
   monthlyMortgagePayment |-> monthlyMortgagePaymentBounds(p, q, P),
   annualDebtService      |-> annualDebtServiceBounds(p, q, P),
   annualCashFlow         |-> annualCashFlowBounds(p, q, P),
   cashOnCashReturn       |-> cashOnCashReturnBounds(p, q, P),
   totalInitialInvestment |-> totalInitialInvestment(p, q)]

\* a 200000 property bought with the loan of Scenario A, its other inputs
\* varied around those of the scenario
ScenarioProperties ==
  [listPrice : NumSet({200000}), numUnits : NumSet({1}),
   estimatedRentPerUnit : NumSet({1500}),
   unitRents : {<<>>, <<Num(1400)>>},
   propertyTaxAnnual : NumSet({2400}), insuranceAnnual : NumSet({1200}),
   hoaMonthly : NumSet({0, 100}), maintenanceRate : NumSet({5}),
   vacancyRate : NumSet({0, 5})]

ScenarioParams ==
  [downPaymentPercent : NumSet({20}), interestRate : NumSet({6}),
   loanTermYears : NumSet({30}), closingCostsPercent : NumSet({2})]

ScenarioInit ==
  /\ property \in ScenarioProperties
  /\ params \in ScenarioParams
  /\ metrics = NoMetrics
  /\ pc = "ready"
  /\ growth = NoGrowth
  /\ InputsIdle
  /\ ProviderIdle
  /\ AppIdle

\* Math.pow, one multiplication at a time
Compound ==
  /\ pc = "ready"
  /\ Amortized(property, params)
  /\ growth.k < numberOfPayments(params).n
  /\ growth' = Compounded(growth, monthlyRate(params))
  /\ UNCHANGED <<property, params, metrics, pc, inputVars, providerVars, appVars>>

CalculateBounds ==
  /\ pc = "ready"
  /\ Amortized(property, params) => growth.k = numberOfPayments(params).n
  /\ metrics' = calculateMetricsBounds(property, params, growth)
  /\ pc' = "done"
  /\ UNCHANGED <<property, params, growth, inputVars, providerVars, appVars>>

ScenarioNext == Compound \/ CalculateBounds

ScenarioSpec == ScenarioInit /\ [][ScenarioNext]_vars

ScenarioA ==
  /\ property = [listPrice |-> Num(200000), numUnits |-> Num(1),
                 estimatedRentPerUnit |-> Num(1500), unitRents |-> <<>>,
                 propertyTaxAnnual |-> Num(2400), insuranceAnnual |-> Num(1200),
                 hoaMonthly |-> Num(0), maintenanceRate |-> Num(5),
                 vacancyRate |-> Num(5)]
  /\ params = [downPaymentPercent |-> Num(20), interestRate |-> Num(6),
               loanTermYears |-> Num(30), closingCostsPercent |-> Num(2)]

\* the enclosed value, in ten-thousandths, rounds to the given one
About(bounds, value, halfUnit) ==
  /\ value - halfUnit <= bounds.lo
  /\ bounds.lo <= bounds.hi
  /\ bounds.hi <= value + halfUnit

NegativeRate == IsFinite(params.interestRate) /\ params.interestRate.n < 0

\* C29: when loanAmount > 0 and interestRate < 0, calculateMetrics applies
\* neither payment formula: monthlyMortgagePayment = 0 and annualDebtService
\* = 0, so that annualCashFlow equals noi.
C29_NegativeRateNoPayment ==
  (Done /\ GtZero(ClaimLoanAmount) /\ NegativeRate) =>
    /\ metrics.monthlyMortgagePayment = Zero
    /\ metrics.annualDebtService = Zero
    /\ metrics.annualCashFlow = metrics.noi

\* 160000 borrowed for one year at -1200 percent: nothing is paid, although
\* the same loan at rate 0 costs 40000/3 a month
C29_Witness ==
  /\ Done
  /\ ClaimLoanAmount = Num(160000)
  /\ params.interestRate = Num(-1200)
  /\ params.loanTermYears = Num(1)
  /\ metrics.monthlyMortgagePayment = Zero
  /\ metrics.annualDebtService = Zero
  /\ metrics.annualCashFlow = metrics.noi

(***************************************************************************)
(* A visit: the App is constructed on a page with or without a share       *)
(* parameter, in a browser with or without a stored key and a stored       *)
(* history, and is then used as in AppSpec.                                *)
(***************************************************************************)
SampleShare ==
  [text |-> encodeURIComponent(JSONstringify(
              [property |-> SampleProperty, params |-> DEFAULT_PARAMS]))]

VisitShareParams == {NoItem, [text |-> Garbage], SampleShare}

VisitHistories ==
  {NoItem, JSONstringify(JArray(<<newItem(SampleProperty, DEFAULT_PARAMS, 0)>>))}

VisitAddresses == {<<" ">>, <<"B">>}

VisitOutcomes == {[kind |-> "networkError"], Parsed(SamplePayload)}

VisitInit ==
  /\ StateConstructed
  /\ storedKey \in StoredKeys
  /\ storedHistory \in VisitHistories
  /\ shareParam \in VisitShareParams
  /\ clipboard = NoItem /\ inflight = <<>> /\ now = 0
  /\ mounted = FALSE /\ lastEvent = NoEvent
  /\ CalcIdle /\ InputsIdle /\ ProviderIdle

VisitTypeAddress == \E text \in VisitAddresses : SetAddress(text)

VisitSettle ==
  \E outcome \in VisitOutcomes, writeOk \in BOOLEAN : SearchSettles(outcome, writeOk)

VisitNext ==
  \/ Mount
  \/ TypeKey
  \/ HandleKeySubmit
  \/ Logout
  \/ VisitTypeAddress
  \/ HandleSearch
  \/ VisitSettle
  \/ OpenEntry
  \/ DeleteEntry
  \/ HandleBack
  \/ EditProperty
  \/ EditParams

VisitSpec == VisitInit /\ [][VisitNext]_vars

(***************************************************************************)
(* Claims about a visit.  The screens are written out from the render      *)
(* function: the key-entry screen when there is neither a key nor a shared *)
(* view, else the dashboard when propertyData is set, else the search and  *)
(* history screen.                                                         *)
(***************************************************************************)
KeyEntryScreen == ~isKeyEntered /\ ~sharedView

DashboardScreen == (isKeyEntered \/ sharedView) /\ propertyData # JNull

SearchScreen == (isKeyEntered \/ sharedView) /\ propertyData = JNull

\* C27: in every reachable state sharedView implies that propertyData is not
\* null; so the search and history screen is rendered, and handleSearch has
\* run, only with isKeyEntered true, and without a key the screen is the
\* key-entry screen or the dashboard of a shared view.
C27_SharedViewHasProperty ==
  /\ sharedView => propertyData # JNull
  /\ SearchScreen => isKeyEntered
  /\ lastEvent.op = "handleSearch" => isKeyEntered
  /\ ~isKeyEntered => KeyEntryScreen \/ (sharedView /\ DashboardScreen)

\* a shared analysis is shown to a visitor who has no key and has edited it
C27_Witness ==
  /\ mounted
  /\ sharedView
  /\ ~isKeyEntered
  /\ propertyData # JNull
  /\ lastEvent.op = "onParamsChange"

EditOps == {"onPropertyChange", "onParamsChange"}

\* the first entry of history h is the analysis (prop, par)
FirstEntryIs(h, prop, par) ==
  /\ "list" \in DOMAIN h
  /\ h.list # <<>>
  /\ h.list[1].property = prop
  /\ h.list[1].params = par
  /\ h.list[1].address = prop.address

EntryIds == 0..MaxClock

HasEntryWithId(h, id) ==
  /\ "list" \in DOMAIN h
  /\ \E i \in DOMAIN h.list : h.list[i].id = id

StoredHasEntryWithId(stored, id) ==
  /\ "json" \in DOMAIN stored
  /\ JSONparse(stored).ok
  /\ HasEntryWithId(JSONparse(stored).value, id)

\* deleteHistoryItem(id) has just run and its write to localStorage succeeded
JustDeleted(id) ==
  /\ lastEvent.op = "deleteHistoryItem"
  /\ lastEvent.id = id
  /\ lastEvent.writeOk

\* C28: once deleteHistoryItem(id) has run (and has written the stored
\* history), the entry with that id is in no later history or stored history,
\* also when a search was in flight at the time of the deletion; stated of
\* the step that follows the deletion.
C28_DeletedStaysDeleted ==
  [][\A id \in EntryIds :
       JustDeleted(id) =>
         /\ ~HasEntryWithId(history', id)
         /\ ~StoredHasEntryWithId(storedHistory', id)]_vars

(***************************************************************************)
(* The stored history and the history on screen (AppSpec).                 *)
(***************************************************************************)
\* the step was a saveToHistory or a deleteHistoryItem that reached its
\* setHistory call
HistoryWritten(event) ==
  \/ event.op = "deleteHistoryItem"
  \/ /\ event.op \in {"searchSettles", "onPropertyChange", "onParamsChange"}
     /\ event.saved

\* C21: after every saveToHistory and every deleteHistoryItem, whatever
\* searches are in flight, the item stored under 'caprate_history' is the
\* serialization of the in-memory history.
C21_StoredIsSerializedHistory ==
  [][HistoryWritten(lastEvent') => storedHistory' = JSONstringify(history')]_vars

(***************************************************************************)
(* A search from its submission to its end (VisitSpec).                    *)
(***************************************************************************)
\* the step settles, with no step in between, the search that the step
\* before it submitted, and the try block of handleSearch runs to its end
SettlesAtOnce ==
  /\ lastEvent.op = "handleSearch"
  /\ lastEvent.started
  /\ lastEvent'.op = "searchSettles"
  /\ lastEvent'.resolved
  /\ lastEvent'.writeOk

SearchNext ==
  \/ Mount
  \/ TypeAddress
  \/ HandleSearch
  \/ Settle
  \/ OpenEntry
  \/ DeleteEntry
  \/ HandleBack
  \/ Logout

SearchSpec == AppInit /\ [][SearchNext]_vars /\ WF_vars(Settle)

Blank(text) == \A i \in DOMAIN text : text[i] = " "

\* C23: handleSearch with a non-blank address sets loading; the step in
\* which the provider call resolves or rejects clears it, so that every
\* loading phase ends; handleSearch with an empty or whitespace-only address
\* changes no state.
C23_SearchEndsLoading ==
  /\ [][lastEvent'.op = "handleSearch" =>
          IF Blank(address)
          THEN UNCHANGED <<stateVars, storedKey, storedHistory, shareParam,
                           clipboard, inflight, now, mounted>>
          ELSE loading' /\ ~loading]_vars
  /\ [][lastEvent'.op = "searchSettles" => loading /\ ~loading']_vars
  /\ loading ~> ~loading

\* a search was submitted after an earlier one had been saved, the provider
\* call was rejected, and loading is false again
C23_Witness ==
  /\ lastEvent.op = "searchSettles"
  /\ ~lastEvent.resolved
  /\ ~loading
  /\ "list" \in DOMAIN history /\ history.list # <<>>

(***************************************************************************)
(* An analysis under edit: property starts as a PropertyData returned by   *)
(* analyzeProperty and is then changed by the handlers of FinancialInputs, *)
(* called as its inputs call them.                                         *)
(***************************************************************************)
ResultPayloads ==
  {Strip(c) : c \in
     [listPrice : {Num(200000)},
      numUnits : {Absent, JNull, Num(-1), Norm(5, 2)} \cup NumSet(0..MaxUnits),
      estimatedRentPerUnit : {Absent, Num(1500)},
      propertyTaxAnnual : {Num(2400)},
      insuranceAnnual : {Absent, Num(1200)},
      hoaMonthly : {Absent},
      description : {AbsentText},
      comps : {Absent}]}

\* the values analyzeProperty returns; a payload on which it throws gives no
\* PropertyData
ResultProperties ==
  {analyzeProperty(SampleAddress, Parsed(d)).value :
     d \in {e \in ResultPayloads : analyzeProperty(SampleAddress, Parsed(e)).ok}}

\* the keys the inputs pass to handlePropChange, each with parseFloat(...) || 0
\* of an emptied input
ResultPropKeys ==
  {"listPrice", "propertyTaxAnnual", "insuranceAnnual", "hoaMonthly",
   "maintenanceRate", "vacancyRate"}

ResultInit ==
  /\ property \in ResultProperties
  /\ params = DEFAULT_PARAMS
  /\ metrics = NoMetrics
  /\ pc = "ready"
  /\ growth = NoGrowth
  /\ lastEdit = NoEdit
  /\ ProviderIdle
  /\ AppIdle

ResultPropChange ==
  \E key \in ResultPropKeys :
    /\ property' = handlePropChange(property, key, Zero)
    /\ lastEdit' = [op |-> "handlePropChange", key |-> key, val |-> Zero,
                    before |-> property]
    /\ UNCHANGED <<params, metrics, pc, growth, providerVars, appVars>>

ResultNext == NumUnitsChange \/ UnitRentChange \/ ResultPropChange

ResultSpec == ResultInit /\ [][ResultNext]_vars

FenceOpen == "<fence>json"

Fence == "<fence>"

KeyToken == "\"a\":"

TextTokens == {"{", "}", KeyToken, "1", " ", "x", FenceOpen, Fence}

MaxTextLen == 5

Texts == UNION {[1..n -> TextTokens] : n \in 0..MaxTextLen}

\* JSON.parse of a text: a number, or an object with no member or with one
\* member whose value is again a value, with spaces around every token
RECURSIVE JSONparseTokens(_)
JSONparseTokens(t) ==
  LET s == Trim(t)
  IN  IF s # <<>> /\ \A i \in DOMAIN s : s[i] = "1"
      THEN Returned([number |-> s])
      ELSE IF Len(s) >= 2 /\ s[1] = "{" /\ s[Len(s)] = "}"
      THEN LET inner == Trim(SubSeq(s, 2, Len(s) - 1))
           IN  IF inner = <<>> THEN Returned([members |-> <<>>])
               ELSE IF inner[1] = KeyToken
               THEN LET v == JSONparseTokens(Tail(inner))
                    IN  IF v.ok THEN Returned([members |-> <<v.value>>])
                        ELSE Thrown("SyntaxError")
               ELSE Thrown("SyntaxError")
      ELSE Thrown("SyntaxError")

Positions(t, tokens) == {i \in DOMAIN t : t[i] \in tokens}

Least(S) == CHOOSE i \in S : \A j \in S : i <= j

Greatest(S) == CHOOSE i \in S : \A j \in S : i >= j

\* String.prototype.indexOf and lastIndexOf of one token, counted from 0
indexOf(t, token) ==
  IF Positions(t, {token}) = {} THEN -1 ELSE Least(Positions(t, {token})) - 1

lastIndexOf(t, token) ==
  IF Positions(t, {token}) = {} THEN -1 ELSE Greatest(Positions(t, {token})) - 1

\* String.prototype.substring: the arguments are swapped when the first is
\* the greater one
substring(t, from, to) ==
  IF from <= to THEN SubSeq(t, from + 1, to) ELSE SubSeq(t, to + 1, from)

\* text.match(/<fence>json\s*([\s\S]*?)\s*<fence>/): the leftmost opening fence that
\* has a fence after it, and as group 1 what stands between it and the next
\* fence, without the spaces at its ends
FencedMatch(t) ==
  LET opens == {i \in Positions(t, {FenceOpen}) :
                  \E j \in Positions(t, {FenceOpen, Fence}) : j > i}
  IN  IF opens = {} THEN [found |-> FALSE]
      ELSE LET i == Least(opens)
               j == Least({k \in Positions(t, {FenceOpen, Fence}) : k > i})
           IN  [found |-> TRUE, group |-> Trim(SubSeq(t, i + 1, j - 1))]

ParseError == Thrown("Could not parse JSON response from model")

extractJSON(text) ==
  LET direct == JSONparseTokens(text)
  IN  IF direct.ok THEN direct
      ELSE
        LET match == FencedMatch(text)
            block == IF match.found /\ match.group # <<>>
                     THEN JSONparseTokens(match.group)
                     ELSE Thrown("no block")
        IN  IF block.ok THEN block
            ELSE
              LET start == indexOf(text, "{")
                  end == lastIndexOf(text, "}")
                  braces == IF start # -1 /\ end # -1
                            THEN JSONparseTokens(substring(text, start, end + 1))
                            ELSE Thrown("no braces")
              IN  IF braces.ok THEN braces ELSE ParseError

ExtractInit ==
  /\ response \in {[text |-> t] : t \in Texts}
  /\ analysis = JNull
  /\ CalcIdle
  /\ InputsIdle
  /\ AppIdle

\* const data = extractJSON(text)
Extract ==
  /\ analysis = JNull
  /\ analysis' = extractJSON(response.text)
  /\ UNCHANGED <<response, calcVars, inputVars, appVars>>

ExtractNext == Extract

ExtractSpec == ExtractInit /\ [][ExtractNext]_vars

Extracted == analysis # JNull

\* the content of the first fenced block of t: what stands between the first
\* opening fence and the next fence
BlockContent(t) ==
  LET i == Least(Positions(t, {FenceOpen}))
      j == Least({k \in Positions(t, {FenceOpen, Fence}) : k > i})
  IN  Trim(SubSeq(t, i + 1, j - 1))

HasBlock(t) ==
  /\ Positions(t, {FenceOpen}) # {}
  /\ \E k \in Positions(t, {FenceOpen, Fence}) : k > Least(Positions(t, {FenceOpen}))
  /\ BlockContent(t) # <<>>

HasBraces(t) == Positions(t, {"{"}) # {} /\ Positions(t, {"}"}) # {}

\* the tokens of t from its first "{" to its last "}"
FirstToLastBrace(t) ==
  SubSeq(t, Least(Positions(t, {"{"})), Greatest(Positions(t, {"}"})))

\* the parses the claim lists, in its order, each if it applies
Attempts(t) ==
  <<JSONparseTokens(t)>> \o
  (IF HasBlock(t) THEN <<JSONparseTokens(BlockContent(t))>> ELSE <<>>) \o
  (IF HasBraces(t) THEN <<JSONparseTokens(FirstToLastBrace(t))>> ELSE <<>>)

\* C25: extractJSON parses the whole text, then the content of the first
\* fenced json block, then the text from the first "{" to the last "}"; it
\* returns the value of the first of these parses that succeeds, and throws
\* "Could not parse JSON response from model" exactly when all that apply
\* fail.
C25_FirstSuccessfulParse ==
  Extracted =>
    LET attempts == Attempts(response.text)
        succeeded == {k \in DOMAIN attempts : attempts[k].ok}
    IN  IF succeeded = {}
        THEN /\ ~analysis.ok
             /\ analysis.error = "Could not parse JSON response from model"
        ELSE /\ analysis.ok
             /\ analysis.value = attempts[Least(succeeded)].value

====
